---- MODULE Spec2Model ----
(***************************************************************************)
(* Model of rekordbox-bulk-edit: the convert command's transactional       *)
(* workflow (commands/convert.py) over a catalog (the Rekordbox database   *)
(* session), a file system, the external encoder and the audio probe.      *)
(*                                                                         *)
(* One step of the model is one stage of convert_command; the SIGINT       *)
(* handler may run between any two stages.  Everything the code reads from *)
(* outside (the owning application's pid, ffmpeg on the path, prompt       *)
(* answers, the encoder's and the probe's outcome, a failing os.remove or  *)
(* commit) is drawn nondeterministically where the code reads it.          *)
(***************************************************************************)
EXTENDS Integers, Sequences, FiniteSets, TLC

VARIABLES
    opt,        \* the command line options of the invocation
    env,        \* what the invocation finds outside: owning application, tools
    matched,    \* the record IDs get_filtered_content returns, in order
    pc,         \* stage of convert_command
    db,         \* TRUE once `db = Rekordbox6Database()` holds a session
    files,      \* files_to_convert, then files_to_process (record IDs)
    idx,        \* loop position: i of the conversion loop, then of the delete loop
    converted,  \* converted_files
    fs,         \* path -> content of the file ("none" when absent)
    durable,    \* the committed catalog: ID -> record
    staged,     \* the session's view of the catalog (pending mutations)
    exit_code,  \* process exit status (-1 while running)
    obs,        \* what the run did: calls, prompts, messages (observation only)
    call        \* a call of a library function outside a run: function, arguments, outcome

vars == <<opt, env, matched, pc, db, files, idx, converted, fs, durable, staged,
          exit_code, obs, call>>

----------------------------------------------------------------------------
(* Bounds and input sets *)

\* largest number of records the query returns
MaxBatch == 2

FormatsOut == {"aiff", "flac", "wav", "alac", "mp3"}
PrintChoices == {"none", "ids", "silent"}
DeleteChoices == {"none", "delete", "keep"}

\* The catalog fixture.  path = <<stem, extension>> in one music directory;
\* FileNameL is stem + extension and FolderPath the full path of the same file.
\* BitDepth 0 stands for a record without recorded bit depth.
Rec(ft, stem, ext, depth, rate) ==
    [FileType |-> ft, path |-> <<stem, ext>>, BitDepth |-> depth, BitRate |-> rate]

Catalog ==
    1 :> Rec(5, "a", ".flac", 16, 0) @@
    2 :> Rec(11, "b", ".wav", 24, 2116) @@
    3 :> Rec(11, "a", ".wav", 0, 1411) @@
    4 :> Rec(11, "c", ".aiff", 16, 1411) @@
    5 :> Rec(0, "c", ".mp3", 0, 320) @@
    6 :> Rec(1, "d", ".mp3", 0, 320) @@
    7 :> Rec(4, "d", ".m4a", 0, 256)

IDs == DOMAIN Catalog
Stems == {Catalog[c].path[1] : c \in IDs}
Extensions == {".mp3", ".aiff", ".flac", ".wav", ".m4a"}
Paths == Stems \X Extensions

\* contents of a file: absent, an original library file, an encoder output of
\* a given bit depth, or a truncated/unreadable file
Contents == {"none", "orig", "pcm16", "pcm24", "bad"}

\* ascending sequences of record IDs of length <= MaxBatch
RECURSIVE Ascending(_, _)
Ascending(n, lo) ==
    IF n = 0 THEN {<<>>}
    ELSE {<<>>} \cup
         UNION {{<<c>> \o s : s \in Ascending(n - 1, c + 1)} : c \in {x \in IDs : x >= lo}}

Libraries == Ascending(MaxBatch, 1)

----------------------------------------------------------------------------
(* utils.py: the format registry *)

Upper(name) ==
    CASE name = "aiff" -> "AIFF" [] name = "flac" -> "FLAC" [] name = "wav" -> "WAV"
      [] name = "alac" -> "ALAC" [] name = "mp3" -> "MP3" [] name = "m4a" -> "M4A"
      [] OTHER -> name

\* get_file_type_for_format: -1 stands for the ValueError "Unknown format"
FileTypeForFormat(format_name) ==
    CASE Upper(format_name) = "MP3" -> 1
      [] Upper(format_name) = "M4A" -> 4
      [] Upper(format_name) = "FLAC" -> 5
      [] Upper(format_name) = "WAV" -> 11
      [] Upper(format_name) = "AIFF" -> 12
      [] OTHER -> -1

\* get_file_type_name: "?" stands for the ValueError "Unknown file_type"
FileTypeName(code) ==
    CASE code \in {0, 1} -> "MP3"
      [] code = 4 -> "M4A"
      [] code = 5 -> "FLAC"
      [] code = 11 -> "WAV"
      [] code = 12 -> "AIFF"
      [] OTHER -> "?"

\* get_extension_for_format: "?" stands for the ValueError "Unknown format"
ExtensionForFormat(format_name) ==
    CASE Upper(format_name) = "MP3" -> ".mp3"
      [] Upper(format_name) = "AIFF" -> ".aiff"
      [] Upper(format_name) = "FLAC" -> ".flac"
      [] Upper(format_name) = "WAV" -> ".wav"
      [] Upper(format_name) = "ALAC" -> ".m4a"
      [] OTHER -> "?"

----------------------------------------------------------------------------
(* convert.py: helpers of convert_command *)

Flags ==
    [dry_run : BOOLEAN, yes : BOOLEAN, delete : DeleteChoices, overwrite : BOOLEAN,
     interactive : BOOLEAN, format_out : FormatsOut, print_opt : PrintChoices]

\* rekordbox_pid: get_rekordbox_pid() finds the owning application running;
\* ffmpeg: shutil.which("ffmpeg") finds the encoder; session: the opened
\* database has a session; rollback_raises: session.rollback() raises
Environments ==
    [rekordbox_pid : BOOLEAN, ffmpeg : BOOLEAN, session : BOOLEAN, rollback_raises : BOOLEAN]

\* scripting_mode = print_opt in (PrintChoice.IDS, PrintChoice.SILENT)
ScriptingMode == opt.print_opt \in {"ids", "silent"}

\* should_delete: smart default based on the output format
ShouldDelete ==
    IF opt.delete = "none" THEN Upper(opt.format_out) # "MP3" ELSE opt.delete = "delete"

\* get_output_path: same directory, stem of the file name + target extension
OutputPath(content, output_format) ==
    <<content.path[1], ExtensionForFormat(Upper(output_format))>>

Exists(f, p) == f[p] # "none"

OutputsOf(conv) == {conv[k].output_path : k \in 1..Len(conv)}
SourcesOf(conv) == {conv[k].source_path : k \in 1..Len(conv)}
IdsOf(conv) == {conv[k].content_id : k \in 1..Len(conv)}

\* a confirm whose empty input counts as yes whatever the default
Confirm_EmptyIsYes(response, default) ==
    CASE response \in {"y", ""} -> "yes" [] response = "n" -> "no" [] OTHER -> "quit"

\* a confirm that takes n for the quit answer
Confirm_NoIsQuit(response, default) ==
    CASE response = "y" \/ (response = "" /\ default) -> "yes" [] OTHER -> "quit"

\* utils.confirm(prompt, default) with binary and abort off: the three-way
\* gate; empty input takes the default
Responses == {"y", "n", "q", ""}
Confirm(response, default) ==
    LET r == IF response = "" THEN (IF default THEN "y" ELSE "n") ELSE response
    IN  CASE r = "y" -> "yes" [] r = "n" -> "no" [] OTHER -> "quit"

\* get_audio_info on a converted file: the bit depths it can report (empty:
\* the probe raises), and the bit rate in kbps
ProbeDepths(content) ==
    CASE content = "pcm16" -> {16}
      [] content = "pcm24" -> {24}
      [] content = "orig" -> {16, 24}
      [] OTHER -> {}

ProbeBitrate(output_format, depth) ==
    IF Upper(output_format) = "MP3" THEN 320 ELSE (44100 * depth * 2) \div 1000

\* a cleanup that removes nothing
CleanupConvertedFiles_Nothing(f, conv, failing) == f

\* cleanup_converted_files: os.remove of every output_path, errors swallowed;
\* failing is the set of paths whose removal raises
CleanupConvertedFiles(f, conv, failing) ==
    [p \in Paths |-> IF p \in OutputsOf(conv) /\ p \notin failing THEN "none" ELSE f[p]]

\* a cleanup that leaves the session as it is
RollbackAndCleanup_NoRollback(code, err, f, o) ==
    \E failing \in SUBSET {p \in OutputsOf(converted) : Exists(f, p)} :
        /\ fs' = CleanupConvertedFiles(f, converted, failing)
        /\ obs' = [o EXCEPT !.cleaned = @ \cup OutputsOf(converted),
                            !.unremoved = @ \cup failing,
                            !.error = err]
        /\ pc' = "exited" /\ exit_code' = code
        /\ UNCHANGED <<call, opt, env, matched, db, files, idx, converted, durable, staged>>

\* a rollback that leaves the converted files where they are
RollbackAndCleanup_NoCleanup(code, err, f, o) ==
    /\ staged' = IF db /\ ~env.rollback_raises THEN durable ELSE staged
    /\ fs' = f
    /\ obs' = [o EXCEPT !.rollbacks = IF db THEN @ + 1 ELSE @, !.error = err]
    /\ pc' = "exited" /\ exit_code' = code
    /\ UNCHANGED <<call, opt, env, matched, db, files, idx, converted, durable>>

\* a cleanup out of which a raising session rollback escapes
RollbackAndCleanup_RollbackEscapes(code, err, f, o) ==
    \E failing \in SUBSET {p \in OutputsOf(converted) : Exists(f, p)} :
        LET escapes == db /\ env.rollback_raises
        IN  /\ staged' = IF db /\ ~env.rollback_raises THEN durable ELSE staged
            /\ fs' = IF escapes THEN f ELSE CleanupConvertedFiles(f, converted, failing)
            /\ obs' = [o EXCEPT !.rollbacks = IF db THEN @ + 1 ELSE @,
                                !.cleaned = IF escapes THEN @ ELSE @ \cup OutputsOf(converted),
                                !.unremoved = IF escapes THEN @ ELSE @ \cup failing,
                                !.error = IF escapes THEN <<"rollback_raised">> ELSE err]
            /\ pc' = "exited"
            /\ exit_code' = IF escapes THEN 1 ELSE code
            /\ UNCHANGED <<call, opt, env, matched, db, files, idx, converted, durable>>

\* a cleanup that always ends the invocation with status 0
RollbackAndCleanup_ExitZero(code, err, f, o) ==
    \E failing \in SUBSET {p \in OutputsOf(converted) : Exists(f, p)} :
        /\ staged' = IF db /\ ~env.rollback_raises THEN durable ELSE staged
        /\ fs' = CleanupConvertedFiles(f, converted, failing)
        /\ obs' = [o EXCEPT !.rollbacks = IF db THEN @ + 1 ELSE @,
                            !.cleaned = @ \cup OutputsOf(converted),
                            !.unremoved = @ \cup failing,
                            !.error = err]
        /\ pc' = "exited"
        /\ exit_code' = 0
        /\ UNCHANGED <<call, opt, env, matched, db, files, idx, converted, durable>>

\* rollback_and_cleanup, then termination with the given status.  f and o are
\* the file system and the observations as the aborting stage leaves them.
RollbackAndCleanup(code, err, f, o) ==
    \E failing \in SUBSET {p \in OutputsOf(converted) : Exists(f, p)} :
        /\ staged' = IF db /\ ~env.rollback_raises THEN durable ELSE staged
        /\ fs' = CleanupConvertedFiles(f, converted, failing)
        /\ obs' = [o EXCEPT !.rollbacks = IF db THEN @ + 1 ELSE @,
                            !.cleaned = @ \cup OutputsOf(converted),
                            !.unremoved = @ \cup failing,
                            !.error = err]
        /\ pc' = "exited"
        /\ exit_code' = code
        /\ UNCHANGED <<call, opt, env, matched, db, files, idx, converted, durable>>

\* return / sys.exit without rollback
Terminate(code, err, o) ==
    /\ pc' = "exited"
    /\ exit_code' = code
    /\ obs' = [o EXCEPT !.error = err]
    /\ UNCHANGED <<call, opt, env, matched, db, files, idx, converted, fs, durable, staged>>

Asked(o, kind) == [o EXCEPT !.prompts = Append(@, kind)]

\* the operator's input at the "Continue anyway?" and at the batch prompt
Answered(o, kind, response) ==
    IF kind = "rekordbox" THEN [Asked(o, kind) EXCEPT !.rekordbox_answer = <<response>>]
    ELSE [Asked(o, kind) EXCEPT !.batch_answer = <<response>>]

----------------------------------------------------------------------------
(* convert.py: convert_command *)

NoObs ==
    [rollbacks |-> 0, commits |-> 0, queries |-> 0, encoded |-> <<>>, prompts |-> <<>>,
     rekordbox_answer |-> <<>>, batch_answer |-> <<>>,
     warned |-> -1, written |-> {}, cleaned |-> {}, src_removed |-> {},
     unremoved |-> {}, probed |-> -1, committed |-> FALSE,
     deleted_count |-> 0, interrupted |-> FALSE, refused |-> {}, error |-> <<"none">>]

InitialFs == [p \in Paths |-> IF \E c \in IDs : Catalog[c].path = p THEN "orig" ELSE "none"]

\* no library function has been called on its own
NoCall == [fn |-> "none", arg |-> <<>>, ret |-> <<>>]

InitWith(flags, environments, libraries) ==
    /\ opt \in flags
    /\ env \in environments
    /\ matched \in libraries
    /\ pc = "start"
    /\ db = FALSE
    /\ files = <<>>
    /\ idx = 0
    /\ converted = <<>>
    /\ fs = InitialFs
    /\ durable = Catalog
    /\ staged = Catalog
    /\ exit_code = -1
    /\ obs = NoObs
    /\ call = NoCall

\* lines 241-273: --print validation (click.UsageError exits with status 2),
\* should_delete, installation of the SIGINT handler
ValidateOptions ==
    /\ pc = "start"
    /\ IF ScriptingMode /\ ~(opt.dry_run \/ opt.yes)
       THEN Terminate(2, <<"usage">>, obs)
       ELSE /\ pc' = "precheck"
            /\ UNCHANGED <<call, opt, env, matched, db, files, idx, converted, fs, durable, staged,
                           exit_code, obs>>

\* preconditions without the ffmpeg check
Precheck_NoFfmpegCheck ==
    /\ pc = "precheck"
    /\ \E response \in Responses :
        LET ask == env.rekordbox_pid /\ ~ScriptingMode
            o == IF ask THEN Answered(obs, "rekordbox", response) ELSE obs
        IN  IF env.rekordbox_pid /\ ScriptingMode
            THEN Terminate(1, <<"rekordbox_running">>, o)
            ELSE IF ask /\ Confirm(response, FALSE) # "yes"
            THEN Terminate(0, <<"declined">>, o)
            ELSE /\ pc' = "open"
                 /\ obs' = o
                 /\ UNCHANGED <<call, opt, env, matched, db, files, idx, converted, fs, durable,
                                staged, exit_code>>

\* lines 276-298: === PRECONDITIONS ===
Precheck ==
    /\ pc = "precheck"
    /\ \E response \in Responses :
        LET rekordbox_pid == env.rekordbox_pid
            ffmpeg_in_path == env.ffmpeg
            ask == rekordbox_pid /\ ~ScriptingMode
            o == IF ask THEN Answered(obs, "rekordbox", response) ELSE obs
        IN  IF rekordbox_pid /\ ScriptingMode
            THEN Terminate(1, <<"rekordbox_running">>, o)
            ELSE IF ask /\ Confirm(response, FALSE) # "yes"
            THEN Terminate(0, <<"declined">>, o)
            ELSE IF ~ffmpeg_in_path
            THEN Terminate(1, <<"ffmpeg_missing">>, o)
            ELSE /\ pc' = "open"
                 /\ obs' = o
                 /\ UNCHANGED <<call, opt, env, matched, db, files, idx, converted, fs, durable,
                                staged, exit_code>>

\* lines 300-302: db = Rekordbox6Database(); no session is an Exception, which
\* the handler of lines 483-485 turns into rollback_and_cleanup and a re-raise
OpenDatabase ==
    /\ pc = "open"
    /\  IF env.session
        THEN /\ db' = TRUE
             /\ pc' = "query"
             /\ UNCHANGED <<call, opt, env, matched, files, idx, converted, fs, durable, staged,
                            exit_code, obs>>
        ELSE RollbackAndCleanup(1, <<"no_session">>, fs, obs)

\* lines 326-332: the candidate filter of === QUERY & FILTER ===
IsCandidate(content, target_file_type, mp3_type, m4a_type) ==
    /\ content.FileType # target_file_type
    /\ content.FileType # mp3_type
    /\ content.FileType # m4a_type

\* lines 304-336: === QUERY & FILTER ===
Query ==
    /\ pc = "query"
    /\ LET o == [obs EXCEPT !.queries = @ + 1]
           target_file_type == FileTypeForFormat(opt.format_out)
           mp3_type == FileTypeForFormat("MP3")
           m4a_type == FileTypeForFormat("M4A")
           keep(c) == IsCandidate(staged[c], target_file_type, mp3_type, m4a_type)
           files_to_convert == SelectSeq(matched, keep)
       IN  IF target_file_type = -1
           THEN RollbackAndCleanup(1, <<"unknown_format">>, fs, o)
           ELSE IF files_to_convert = <<>>
           THEN Terminate(0, <<"no_files">>, o)
           ELSE /\ files' = files_to_convert
                /\ pc' = "conflict"
                /\ obs' = o
                /\ UNCHANGED <<call, opt, env, matched, db, idx, converted, fs, durable, staged,
                               exit_code>>

\* the warning is logged under --yes too
ConflictWarning_AlsoWithYes(conflicts, overwrite, yes) ==
    conflicts # <<>> /\ ~overwrite

\* lines 348-359: the warning "Skipping N files (output exists, use
\* --overwrite)" is logged for conflicts without --overwrite and without --yes
ConflictWarning(conflicts, overwrite, yes) ==
    conflicts # <<>> /\ ~overwrite /\ ~yes

\* lines 349-351, 364: the candidates that go on to PREVIEW
FilesToProcess(files_to_convert, convertible, overwrite) ==
    IF overwrite THEN files_to_convert ELSE convertible

\* lines 338-364: === CONFLICT CHECK ===
ConflictCheck ==
    /\ pc = "conflict"
    /\ LET conflict(c) == Exists(fs, OutputPath(staged[c], opt.format_out))
           free(c) == ~conflict(c)
           conflicts == SelectSeq(files, conflict)
           convertible == SelectSeq(files, free)
           warn == ConflictWarning(conflicts, opt.overwrite, opt.yes)
           o == IF warn THEN [obs EXCEPT !.warned = Len(conflicts)] ELSE obs
           files_to_process == FilesToProcess(files, convertible, opt.overwrite)
       IN  IF conflicts # <<>> /\ ~opt.overwrite /\ convertible = <<>>
           THEN Terminate(0, <<"all_conflict">>, o)
           ELSE /\ files' = files_to_process
                /\ pc' = "preview"
                /\ obs' = o
                /\ UNCHANGED <<call, opt, env, matched, db, idx, converted, fs, durable, staged,
                               exit_code>>

\* a preview that goes on to CONFIRM under --dry-run too
Preview_IgnoresDryRun ==
    /\ pc = "preview"
    /\ pc' = "confirm"
    /\ UNCHANGED <<call, opt, env, matched, db, files, idx, converted, fs, durable, staged,
                   exit_code, obs>>

\* lines 366-375: === PREVIEW ===
Preview ==
    /\ pc = "preview"
    /\ IF opt.dry_run
       THEN Terminate(0, <<"dry_run">>, obs)
       ELSE /\ pc' = "confirm"
            /\ UNCHANGED <<call, opt, env, matched, db, files, idx, converted, fs, durable, staged,
                           exit_code, obs>>

\* lines 377-387: === CONFIRM ===
ConfirmBatch ==
    /\ pc = "confirm"
    /\ \E response \in Responses :
        LET ask == ~opt.yes /\ ~opt.interactive
            o == IF ask THEN Answered(obs, "batch", response) ELSE obs
        IN  IF ask /\ Confirm(response, TRUE) # "yes"
            THEN Terminate(0, <<"cancelled">>, o)
            ELSE /\ pc' = "loop"
                 /\ idx' = 1
                 /\ obs' = o
                 /\ UNCHANGED <<call, opt, env, matched, db, files, converted, fs, durable, staged,
                                exit_code>>

\* what one encoder call (convert_to_lossless / convert_to_mp3) can do: report
\* success and write the output (16 or 24 bit), report success and write
\* nothing, return False with or without a truncated output, or raise before
\* ffmpeg runs (lines 42-46, 92-93)
EncoderOutcomes == {"ok16", "ok24", "ok_nofile", "fail", "fail_partial", "raise"}

EncoderWrites(outcome) ==
    CASE outcome = "ok16" -> "pcm16"
      [] outcome = "ok24" -> "pcm24"
      [] outcome = "fail_partial" -> "bad"
      [] OTHER -> "none"

EncoderSuccess(outcome) == outcome \in {"ok16", "ok24", "ok_nofile"}

\* a re-check that never skips
SkipExisting_Never(f, output_path, overwrite) == FALSE

\* lines 416-417: the re-check of the output path at the candidate's turn
SkipExisting(f, output_path, overwrite) == Exists(f, output_path) /\ ~overwrite

\* lines 400-402: the per-file prompt; `refused` keeps the candidates at whose
\* prompt the operator typed n
AskedFile(o, c, response) ==
    [Asked(o, "file") EXCEPT !.refused = IF response = "n" THEN @ \cup {c} ELSE @]

\* lines 390-429: one pass of the loop up to and including the encoder call
LoopEncode ==
    /\ pc = "loop"
    /\ idx <= Len(files)
    /\ \E response \in Responses, vanished \in BOOLEAN, outcome \in EncoderOutcomes :
        LET c == files[idx]
            content == staged[c]
            src_folder_path == content.path
            output_path == OutputPath(content, opt.format_out)
            answer == IF opt.interactive THEN Confirm(response, TRUE) ELSE "yes"
            o1 == IF opt.interactive THEN AskedFile(obs, c, response) ELSE obs
            f1 == IF vanished THEN [fs EXCEPT ![src_folder_path] = "none"] ELSE fs
            wrote == EncoderWrites(outcome) # "none"
            f2 == IF wrote THEN [f1 EXCEPT ![output_path] = EncoderWrites(outcome)] ELSE f1
            o2 == [o1 EXCEPT !.encoded = Append(@, c),
                             !.written = IF wrote THEN @ \cup {output_path} ELSE @]
            continue(f, o) ==
                /\ idx' = idx + 1
                /\ fs' = f
                /\ obs' = o
                /\ UNCHANGED <<call, opt, env, matched, pc, db, files, converted, durable, staged,
                               exit_code>>
        IN  IF answer = "no" THEN continue(fs, o1)
            ELSE IF answer = "quit" THEN RollbackAndCleanup(0, <<"user_quit">>, fs, o1)
            ELSE IF ~Exists(f1, src_folder_path)
            THEN RollbackAndCleanup(1, <<"source_missing">>, f1, o1)
            ELSE IF SkipExisting(f1, output_path, opt.overwrite) THEN continue(f1, o1)
            ELSE IF outcome = "raise" \/ ~env.ffmpeg THEN RollbackAndCleanup(1, <<"encode_raised">>, f1, o1)
            ELSE IF ~EncoderSuccess(outcome)
            THEN RollbackAndCleanup(1, <<"encode_failed">>, f2, o2)
            ELSE /\ pc' = "stage"
                 /\ fs' = f2
                 /\ obs' = o2
                 /\ UNCHANGED <<call, opt, env, matched, db, files, idx, converted, durable, staged,
                                exit_code>>

\* a guard that leaves WAV targets unchecked
BitDepthMismatch_NotForWav(output_format, database_bit_depth, converted_bit_depth) ==
    /\ Upper(output_format) \in {"AIFF", "FLAC"}
    /\ database_bit_depth # 0
    /\ converted_bit_depth # database_bit_depth

\* update_database_record, lines 134-141: the bit depth guard
BitDepthMismatch(output_format, database_bit_depth, converted_bit_depth) ==
    /\ Upper(output_format) \in {"AIFF", "FLAC", "WAV"}
    /\ database_bit_depth # 0
    /\ converted_bit_depth # database_bit_depth

\* a staging that leaves the record's path alone
StageRecord_KeepsPath(content, output_path, output_format, converted_bit_depth) ==
    [content EXCEPT !.FileType = FileTypeForFormat(output_format)]

\* a staging that stores the probed bit rate for FLAC too
StageRecord_ProbedBitRate(content, output_path, output_format, converted_bit_depth) ==
    [content EXCEPT !.path = output_path,
                    !.FileType = FileTypeForFormat(output_format),
                    !.BitRate = ProbeBitrate(output_format, converted_bit_depth)]

\* update_database_record, lines 143-151: the staged mutation
StageRecord(content, output_path, output_format, converted_bit_depth) ==
    [content EXCEPT !.path = output_path,
                    !.FileType = FileTypeForFormat(output_format),
                    !.BitRate = IF Upper(output_format) = "FLAC" THEN 0
                                ELSE ProbeBitrate(output_format, converted_bit_depth)]

\* lines 431-451: output verification, update_database_record, append to
\* converted_files; probe = -1 stands for get_audio_info raising
LoopStage ==
    /\ pc = "stage"
    /\ LET c == files[idx]
           content == staged[c]
           output_path == OutputPath(content, opt.format_out)
           probed(d) == [obs EXCEPT !.queries = @ + 1, !.probed = d]
       IN  IF ~Exists(fs, output_path)
           THEN RollbackAndCleanup(1, <<"output_missing">>, fs, obs)
           ELSE \E probe \in ProbeDepths(fs[output_path]) \cup {-1} :
               LET o == probed(probe)
               IN
               IF probe = -1 THEN RollbackAndCleanup(1, <<"probe_failed">>, fs, o)
               ELSE IF FileTypeForFormat(opt.format_out) = -1
               THEN RollbackAndCleanup(1, <<"unknown_format">>, fs, o)
               ELSE IF BitDepthMismatch(opt.format_out, content.BitDepth, probe)
               THEN RollbackAndCleanup(1, <<"bit_depth_mismatch", content.BitDepth, probe>>,
                                       fs, o)
               ELSE /\ staged' = [staged EXCEPT
                                    ![c] = StageRecord(content, output_path, opt.format_out, probe)]
                    /\ converted' = Append(converted,
                                           [source_path |-> content.path,
                                            output_path |-> output_path,
                                            content_id |-> c])
                    /\ idx' = idx + 1
                    /\ pc' = "loop"
                    /\ obs' = o
                    /\ UNCHANGED <<call, opt, env, matched, db, files, fs, durable, exit_code>>

\* a loop that never counts as exhausted
LoopFinished_Never(i, files_to_process) == FALSE

\* a loop that counts as exhausted after its first pass
LoopFinished_AfterFirst(i, files_to_process) == i > 1

\* line 390: the for loop is exhausted
LoopFinished(i, files_to_process) == i > Len(files_to_process)

\* lines 453-466: === COMMIT ===
Commit ==
    /\ pc = "loop"
    /\ LoopFinished(idx, files)
    /\ IF converted = <<>>
       THEN Terminate(0, <<"none_converted">>, obs)
       ELSE \E commit_ok \in BOOLEAN :
           LET o == [obs EXCEPT !.commits = @ + 1]
           IN  IF commit_ok
               THEN /\ durable' = staged
                    /\ pc' = "post"
                    /\ idx' = 1
                    /\ obs' = [o EXCEPT !.committed = TRUE]
                    /\ UNCHANGED <<call, opt, env, matched, db, files, converted, fs, staged, exit_code>>
               ELSE RollbackAndCleanup(1, <<"commit_failed">>, fs, o)

\* a deletion of originals that gives up at the first removal that fails
DeleteOriginals_StopsAtFailure ==
    /\ pc = "post"
    /\ IF ~ShouldDelete \/ idx > Len(converted)
       THEN Terminate(0, <<"done">>, obs)
       ELSE \E remove_ok \in BOOLEAN :
           LET source_path == converted[idx].source_path
               removed == remove_ok /\ Exists(fs, source_path)
           IN  IF ~removed
               THEN Terminate(0, <<"done">>,
                              [obs EXCEPT !.src_removed = @ \cup {source_path}])
               ELSE /\ fs' = [fs EXCEPT ![source_path] = "none"]
                    /\ obs' = [obs EXCEPT !.src_removed = @ \cup {source_path},
                                          !.deleted_count = @ + 1]
                    /\ idx' = idx + 1
                    /\ UNCHANGED <<call, opt, env, matched, pc, db, files, converted, durable,
                                   staged, exit_code>>

\* lines 468-481: === OUTPUT ===, === DELETE ORIGINALS ===, one os.remove a step
DeleteOriginals ==
    /\ pc = "post"
    /\ IF ~ShouldDelete \/ idx > Len(converted)
       THEN Terminate(0, <<"done">>, obs)
       ELSE \E remove_ok \in BOOLEAN :
           LET source_path == converted[idx].source_path
               removed == remove_ok /\ Exists(fs, source_path)
           IN  /\ fs' = IF removed THEN [fs EXCEPT ![source_path] = "none"] ELSE fs
               /\ obs' = [obs EXCEPT !.src_removed = @ \cup {source_path},
                                     !.deleted_count = IF removed THEN @ + 1 ELSE @]
               /\ idx' = idx + 1
               /\ UNCHANGED <<call, opt, env, matched, pc, db, files, converted, durable, staged,
                              exit_code>>

\* a handler that only terminates
SigInt_ExitOnly ==
    /\ pc \notin {"start", "exited"}
    /\ Terminate(1, <<"interrupted">>, [obs EXCEPT !.interrupted = TRUE])

\* lines 268-273: signal_handler, installed before PRECHECK
SigInt ==
    /\ pc \notin {"start", "exited"}
    /\ RollbackAndCleanup(1, <<"interrupted">>, fs, [obs EXCEPT !.interrupted = TRUE])

Next ==
    \/ ValidateOptions
    \/ Precheck
    \/ OpenDatabase
    \/ Query
    \/ ConflictCheck
    \/ Preview
    \/ ConfirmBatch
    \/ LoopEncode
    \/ LoopStage
    \/ Commit
    \/ DeleteOriginals
    \/ SigInt

\* the steps convert_command takes by itself; SIGINT is the environment's
Step ==
    \/ ValidateOptions
    \/ Precheck
    \/ OpenDatabase
    \/ Query
    \/ ConflictCheck
    \/ Preview
    \/ ConfirmBatch
    \/ LoopEncode
    \/ LoopStage
    \/ Commit
    \/ DeleteOriginals

\* The batch runs: a healthy environment, a human operator and the default
\* deletion policy; every combination of the other options and every library
\* of up to MaxBatch records.
BatchFlags == {o \in Flags : o.print_opt = "none" /\ o.delete = "none"}
Healthy ==
    {e \in Environments : ~e.rekordbox_pid /\ e.ffmpeg /\ e.session /\ ~e.rollback_raises}

Init == InitWith(BatchFlags, Healthy, Libraries)

Spec == Init /\ [][Next]_vars

\* The option runs: every combination of the options and of the environment
\* (rollback never raising), over the libraries of at most one record.
SingleLibraries == {<<>>} \cup {<<c>> : c \in IDs}
Reliable == {e \in Environments : ~e.rollback_raises}

InitOptions == InitWith(Flags, Reliable, SingleLibraries)

SpecOptions == InitOptions /\ [][Next]_vars

\* The batch runs of a single-threaded, synchronous command whose prompts are
\* answered and whose encoder and probe calls return: a step of the command
\* that can be taken is eventually taken; an interrupt may or may not arrive.
SpecFair == Init /\ [][Next]_vars /\ WF_vars(Step)

----------------------------------------------------------------------------
(* Library functions called on their own: every variable of a run is at rest *)

runVars == <<opt, env, matched, pc, db, files, idx, converted, fs, durable, staged,
             exit_code, obs>>

\* no invocation of the command is under way
AtRest ==
    /\ opt = [dry_run |-> FALSE, yes |-> FALSE, delete |-> "none", overwrite |-> FALSE,
              interactive |-> FALSE, format_out |-> "aiff", print_opt |-> "none"]
    /\ env = [rekordbox_pid |-> FALSE, ffmpeg |-> TRUE, session |-> TRUE,
              rollback_raises |-> FALSE]
    /\ matched = <<>>
    /\ pc = "library"
    /\ db = FALSE
    /\ files = <<>>
    /\ idx = 0
    /\ converted = <<>>
    /\ fs = InitialFs
    /\ durable = Catalog
    /\ staged = Catalog
    /\ exit_code = -1
    /\ obs = NoObs

----------------------------------------------------------------------------
(* query.py: CollectionQuery and get_filtered_content *)

\* largest number of builder calls in a chain, and of filter values in one
\* call of get_filtered_content
MaxFilters == 2

\* Texts are written letter by letter.  None is Python's None and the
\* database's NULL; <<>> is the empty string.
None == <<"None">>

LowerChar(c) ==
    CASE c = "A" -> "a" [] c = "B" -> "b" [] c = "X" -> "x" [] c = "Y" -> "y"
      [] c = "M" -> "m" [] c = "P" -> "p" [] c = "N" -> "n" [] c = "Q" -> "q"
      [] OTHER -> c

StrLower(s) == [k \in DOMAIN s |-> LowerChar(s[k])]

\* the titles, artists, albums and playlists of the catalog's records
Tag(title, artist, album, playlists) ==
    [Title |-> title, Artist |-> artist, Album |-> album, Playlists |-> playlists]

Tags ==
    1 :> Tag(<<"a", "b">>, <<"x">>, <<"m">>, {<<"p">>}) @@
    2 :> Tag(<<"A">>, <<"y">>, None, {}) @@
    3 :> Tag(None, <<"X", "y">>, <<"m">>, {<<"p">>, <<"P", "a">>}) @@
    4 :> Tag(<<"b">>, None, <<"M", "b">>, {}) @@
    5 :> Tag(<<"b", "a">>, <<"x">>, None, {<<"P", "a">>}) @@
    6 :> Tag(<<"B">>, <<"y">>, <<"m">>, {}) @@
    7 :> Tag(None, None, None, {})

\* the values a text filter is given
Patterns == {<<>>, <<"a">>, <<"B">>, <<"P", "a">>}

\* the format names a format filter is given: the CLI's choices, a name the
\* registry has no code for, the empty string
FormatFilters == {"mp3", "flac", "wav", "m4a", "alac", ""}

\* a WHERE condition: column, operator and operand (always a tuple)
Condition(column, op, value) == [column |-> column, op |-> op, value |-> value]

\* column ILIKE '%pattern%' and column = pattern; on NULL neither is true
ILike(value, pattern) ==
    /\ value # None
    /\ \E k \in 1..(Len(value) - Len(pattern) + 1) :
           SubSeq(StrLower(value), k, k + Len(pattern) - 1) = StrLower(pattern)

Like(op, value, pattern) ==
    IF op = "==" THEN value # None /\ value = pattern ELSE ILike(value, pattern)

\* record c has a joined row on which the condition is true
Holds(cond, c) ==
    CASE cond.column = "ID" -> \E k \in DOMAIN cond.value : cond.value[k] = c
      [] cond.column = "FileType" -> Catalog[c].FileType = cond.value[1]
      [] cond.column = "Title" ->
            IF cond.op = "is" THEN Tags[c].Title = None
            ELSE Like(cond.op, Tags[c].Title, cond.value)
      [] cond.column = "Artist.Name" ->
            IF cond.op = "is" THEN Tags[c].Artist = None
            ELSE Like(cond.op, Tags[c].Artist, cond.value)
      [] cond.column = "AlbumID" -> Tags[c].Album = None
      [] cond.column = "Album.Name" -> Like(cond.op, Tags[c].Album, cond.value)
      [] cond.column = "SongPlaylist.ContentID" -> Tags[c].Playlists = {}
      [] cond.column = "Playlist.Name" ->
            \E p \in Tags[c].Playlists : Like(cond.op, p, cond.value)

\* Python's truth value of _match_all: False, True, or the bound method
\* self.match_any that _copy stores there
Truthy(flag) == flag # "False"

\* __init__
CollectionQuery(match_all, fresh) ==
    [id |-> fresh, stmt |-> <<>>, conditions |-> <<>>, limit_count |-> <<>>,
     match_all |-> IF match_all THEN "True" ELSE "False"]

\* _copy: a new object; `new_inst._match_all = self.match_any` stores the bound
\* method, not the receiver's flag
Copy(self, fresh) == [self EXCEPT !.id = fresh, !.match_all = "method"]

match_any(self, fresh) == [Copy(self, fresh) EXCEPT !.match_all = "False"]

match_all(self, fresh) == [Copy(self, fresh) EXCEPT !.match_all = "True"]

\* a str argument becomes a one-element list
by_track_ids(self, track_ids, fresh) ==
    [Copy(self, fresh) EXCEPT !.conditions = Append(@, Condition("ID", "in", track_ids))]

TextOp(exact) == IF exact THEN "==" ELSE "ilike"

by_artist(self, artist_name, exact, fresh) ==
    IF artist_name = None THEN self
    ELSE [Copy(self, fresh) EXCEPT
            !.stmt = Append(@, "Artist"),
            !.conditions = Append(@, IF artist_name = <<>>
                                     THEN Condition("Artist.Name", "is", None)
                                     ELSE Condition("Artist.Name", TextOp(exact), artist_name))]

by_title(self, title, exact, fresh) ==
    IF title = None THEN self
    ELSE [Copy(self, fresh) EXCEPT
            !.conditions = Append(@, IF title = <<>>
                                     THEN Condition("Title", "is", None)
                                     ELSE Condition("Title", TextOp(exact), title))]

by_album(self, album_name, exact, fresh) ==
    IF album_name = None THEN self
    ELSE [Copy(self, fresh) EXCEPT
            !.stmt = Append(@, "Album"),
            !.conditions = Append(@, IF album_name = <<>>
                                     THEN Condition("AlbumID", "is", None)
                                     ELSE Condition("Album.Name", TextOp(exact), album_name))]

by_playlist(self, playlist_name, exact, fresh) ==
    IF playlist_name = None THEN self
    ELSE [Copy(self, fresh) EXCEPT
            !.stmt = @ \o <<"SongPlaylist", "Playlist">>,
            !.conditions = Append(@, IF playlist_name = <<>>
                                     THEN Condition("SongPlaylist.ContentID", "is", None)
                                     ELSE Condition("Playlist.Name", TextOp(exact), playlist_name))]

\* an empty name returns the receiver; a name without a code returns a copy
\* without a new condition
by_format(self, format_name, fresh) ==
    IF format_name = "" THEN self
    ELSE IF FileTypeForFormat(format_name) = -1 THEN Copy(self, fresh)
    ELSE [Copy(self, fresh) EXCEPT
            !.conditions = Append(@, Condition("FileType", "==",
                                               <<FileTypeForFormat(format_name)>>))]

limit(self, count, fresh) == [Copy(self, fresh) EXCEPT !.limit_count = <<count>>]

\* _get_full_statement: the WHERE clause ("none" without conditions) and the limit
GetFullStatement(self) ==
    [logic |-> IF self.conditions = <<>> THEN "none"
               ELSE IF Truthy(self.match_all) THEN "AND" ELSE "OR",
     conditions |-> self.conditions,
     limit_count |-> self.limit_count]

\* the records the statement selects, before the limit
Selected(stmt) ==
    {c \in IDs :
        CASE stmt.logic = "none" -> TRUE
          [] stmt.logic = "AND" -> \A k \in DOMAIN stmt.conditions : Holds(stmt.conditions[k], c)
          [] stmt.logic = "OR" -> \E k \in DOMAIN stmt.conditions : Holds(stmt.conditions[k], c)}

\* execute: the results the database may return (without ORDER BY a limit
\* keeps any `limit_count` of the selected records)
Execute(self) ==
    LET stmt == GetFullStatement(self)
        sel == Selected(stmt)
        n == IF stmt.limit_count = <<>> \/ stmt.limit_count[1] > Cardinality(sel)
             THEN Cardinality(sel) ELSE stmt.limit_count[1]
    IN  {r \in SUBSET sel : Cardinality(r) = n}

\* the filter arguments of get_filtered_content, in the order the function
\* applies them; None stands for an option that was not given
FilterNames ==
    <<"track_ids", "formats", "playlists", "exact_playlists", "artists", "exact_artists",
      "albums", "exact_albums", "titles", "exact_titles">>

\* one builder call of get_filtered_content's loops
ApplyFilter(query, name, value) ==
    CASE name = "track_ids" -> by_track_ids(query, <<value>>, query.id + 1)
      [] name = "formats" -> by_format(query, value, query.id + 1)
      [] name = "playlists" -> by_playlist(query, value, FALSE, query.id + 1)
      [] name = "exact_playlists" -> by_playlist(query, value, TRUE, query.id + 1)
      [] name = "artists" -> by_artist(query, value, FALSE, query.id + 1)
      [] name = "exact_artists" -> by_artist(query, value, TRUE, query.id + 1)
      [] name = "albums" -> by_album(query, value, FALSE, query.id + 1)
      [] name = "exact_albums" -> by_album(query, value, TRUE, query.id + 1)
      [] name = "titles" -> by_title(query, value, FALSE, query.id + 1)
      [] name = "exact_titles" -> by_title(query, value, TRUE, query.id + 1)

\* `for value in values: query = query.by_...(value)`
RECURSIVE ApplyEach(_, _, _)
ApplyEach(query, name, values) ==
    IF values = <<>> THEN query
    ELSE ApplyEach(ApplyFilter(query, name, Head(values)), name, Tail(values))

\* the ten loops from position k of FilterNames on
RECURSIVE ApplyFrom(_, _, _)
ApplyFrom(query, args, k) ==
    IF k > Len(FilterNames) THEN query
    ELSE ApplyFrom(ApplyEach(query, FilterNames[k], args[FilterNames[k]]), args, k + 1)

\* get_filtered_content: the query it executes
FilteredQuery(args) ==
    IF args.track_id_args # <<>>
    THEN by_track_ids(CollectionQuery(FALSE, 0), args.track_id_args, 1)
    ELSE LET query == ApplyFrom(CollectionQuery(FALSE, 0), args, 1)
         IN  IF args.match_all THEN match_all(query, query.id + 1) ELSE query

\* the values an argument of get_filtered_content may carry
FilterValues(name) ==
    CASE name = "track_ids" -> IDs
      [] name = "formats" -> FormatFilters \ {""}
      [] OTHER -> Patterns

NoFilters ==
    [track_id_args |-> <<>>, track_ids |-> <<>>, formats |-> <<>>, playlists |-> <<>>,
     exact_playlists |-> <<>>, artists |-> <<>>, exact_artists |-> <<>>, albums |-> <<>>,
     exact_albums |-> <<>>, titles |-> <<>>, exact_titles |-> <<>>, match_all |-> FALSE]

\* the filter arguments with at most n values in all
RECURSIVE FiltersUpTo(_)
FiltersUpTo(n) ==
    IF n = 0 THEN {NoFilters}
    ELSE LET fewer == FiltersUpTo(n - 1)
         IN  fewer \cup
             UNION {UNION {{[a EXCEPT ![FilterNames[k]] = Append(@, v)] : a \in fewer} :
                           v \in FilterValues(FilterNames[k])} :
                    k \in DOMAIN FilterNames}

\* the track IDs given as the command's argument
TrackIdArgs == {<<>>, <<1>>, <<2, 5>>}

Builders ==
    {"match_any", "match_all", "by_track_ids", "by_artist", "by_title", "by_album",
     "by_playlist", "by_format", "limit"}

\* a builder is called on the query the previous call returned
Chaining ==
    /\ call.fn \in Builders \cup {"CollectionQuery"}
    /\ call.ret.new.id < MaxFilters

\* the call of builder fn on receiver self that returns new
Built(fn, self, args, new) ==
    /\ call' = [fn |-> fn, arg |-> [self |-> self, args |-> args],
                ret |-> [self |-> self, new |-> new]]
    /\ UNCHANGED runVars

MatchAny ==
    /\ Chaining
    /\ LET self == call.ret.new
       IN  Built("match_any", self, <<>>, match_any(self, self.id + 1))

MatchAll ==
    /\ Chaining
    /\ LET self == call.ret.new
       IN  Built("match_all", self, <<>>, match_all(self, self.id + 1))

ByTrackIds ==
    /\ Chaining
    /\ \E track_ids \in TrackIdArgs \ {<<>>} :
           LET self == call.ret.new
           IN  Built("by_track_ids", self, <<track_ids>>,
                     by_track_ids(self, track_ids, self.id + 1))

\* the text a by_* builder is given
BuilderTexts == {None, <<>>, <<"a">>}

ByArtist ==
    /\ Chaining
    /\ \E artist_name \in BuilderTexts, exact \in BOOLEAN :
           LET self == call.ret.new
           IN  Built("by_artist", self, <<artist_name, <<exact>>>>,
                     by_artist(self, artist_name, exact, self.id + 1))

ByTitle ==
    /\ Chaining
    /\ \E title \in BuilderTexts, exact \in BOOLEAN :
           LET self == call.ret.new
           IN  Built("by_title", self, <<title, <<exact>>>>,
                     by_title(self, title, exact, self.id + 1))

ByAlbum ==
    /\ Chaining
    /\ \E album_name \in BuilderTexts, exact \in BOOLEAN :
           LET self == call.ret.new
           IN  Built("by_album", self, <<album_name, <<exact>>>>,
                     by_album(self, album_name, exact, self.id + 1))

ByPlaylist ==
    /\ Chaining
    /\ \E playlist_name \in BuilderTexts, exact \in BOOLEAN :
           LET self == call.ret.new
           IN  Built("by_playlist", self, <<playlist_name, <<exact>>>>,
                     by_playlist(self, playlist_name, exact, self.id + 1))

ByFormat ==
    /\ Chaining
    /\ \E format_name \in {"flac", "wav", "alac", ""} :
           LET self == call.ret.new
           IN  Built("by_format", self, <<format_name>>,
                     by_format(self, format_name, self.id + 1))

Limit ==
    /\ Chaining
    /\ \E count \in 1..2 :
           LET self == call.ret.new
           IN  Built("limit", self, <<count>>, limit(self, count, self.id + 1))

\* execute on the query built so far; without a session it raises RuntimeError
ExecuteQuery ==
    /\ Chaining
    /\ \E session \in BOOLEAN :
           LET self == call.ret.new
           IN  \E rows \in IF session THEN Execute(self) ELSE {{}} :
                   /\ call' = [fn |-> "execute", arg |-> [self |-> self, session |-> session],
                               ret |-> [error |-> IF session THEN "none" ELSE "RuntimeError",
                                        rows |-> rows]]
                   /\ UNCHANGED runVars

\* get_filtered_content over the catalog
GetFilteredContent ==
    /\ call.fn = "CollectionQuery"
    /\ \E filters \in FiltersUpTo(MaxFilters), ids \in TrackIdArgs, all \in BOOLEAN,
          session \in BOOLEAN :
           LET args == [filters EXCEPT !.track_id_args = ids, !.match_all = all]
           IN  \E rows \in IF session THEN Execute(FilteredQuery(args)) ELSE {{}} :
                   /\ call' = [fn |-> "get_filtered_content",
                               arg |-> [args |-> args, session |-> session],
                               ret |-> [error |-> IF session THEN "none" ELSE "RuntimeError",
                                        rows |-> rows]]
                   /\ UNCHANGED runVars

InitQuery ==
    /\ AtRest
    /\ \E flag \in BOOLEAN :
           call = [fn |-> "CollectionQuery", arg |-> [match_all |-> flag],
                   ret |-> [new |-> CollectionQuery(flag, 0)]]

NextQuery ==
    \/ MatchAny
    \/ MatchAll
    \/ ByTrackIds
    \/ ByArtist
    \/ ByTitle
    \/ ByAlbum
    \/ ByPlaylist
    \/ ByFormat
    \/ Limit
    \/ ExecuteQuery
    \/ GetFilteredContent

SpecQuery == InitQuery /\ [][NextQuery]_vars

----------------------------------------------------------------------------
(* utils.py: get_audio_info *)

\* A field of a stream of the probe's report is <<>> when the report does not
\* have it and <<value>> when it does.  Numbers stand for the numbers and the
\* digit strings of the report alike (the code passes them through int());
\* a zero is the number 0: the report leaves a field out rather than giving
\* it as the text "0".
Stream(codec_type, bits_per_sample, bits_per_raw_sample, sample_fmt, bit_rate, sample_rate, channels) ==
    [codec_type |-> codec_type, bits_per_sample |-> bits_per_sample,
     bits_per_raw_sample |-> bits_per_raw_sample, sample_fmt |-> sample_fmt,
     bit_rate |-> bit_rate, sample_rate |-> sample_rate, channels |-> channels]

\* sample format tags, written letter by letter
SampleFormats ==
    {<<"s", "1", "6">>, <<"s", "2", "4">>, <<"s", "3", "2", "p">>, <<"f", "l", "t", "p">>}

AudioStreams ==
    {Stream("audio", bps, raw, fmt, rate, sr, ch) :
        bps \in {<<>>, <<0>>, <<16>>, <<24>>},
        raw \in {<<>>, <<0>>, <<16>>, <<24>>},
        fmt \in {<<>>} \cup {<<f>> : f \in SampleFormats},
        rate \in {<<>>, <<0>>, <<1411200>>},
        sr \in {<<>>, <<48000>>},
        ch \in {<<>>, <<1>>, <<2>>}}

VideoStream == Stream("video", <<>>, <<>>, <<>>, <<>>, <<>>, <<>>)

\* a second audio stream of the same file
OtherAudio == Stream("audio", <<32>>, <<>>, <<>>, <<320000>>, <<44100>>, <<2>>)

\* probe["streams"]
StreamLists ==
    {<<>>, <<VideoStream>>} \cup
    UNION {{<<a>>, <<VideoStream, a>>, <<a, OtherAudio>>} : a \in AudioStreams}

\* ffmpeg: ffmpeg_in_path(); probe_raises: ffmpeg.probe raises (no such file,
\* not a media file); streams: the report's streams otherwise
ProbeInputs == [ffmpeg : BOOLEAN, probe_raises : BOOLEAN, streams : StreamLists]

\* `sub in text`
Contains(text, sub) ==
    \E k \in 1..(Len(text) - Len(sub) + 1) : SubSeq(text, k, k + Len(sub) - 1) = sub

\* next((stream for stream in probe["streams"] if codec_type == "audio"), None):
\* the index of the first audio stream, 0 for None
FirstAudio(streams) ==
    IF \E k \in DOMAIN streams : streams[k].codec_type = "audio"
    THEN CHOOSE k \in DOMAIN streams :
             /\ streams[k].codec_type = "audio"
             /\ \A j \in 1..(k - 1) : streams[j].codec_type # "audio"
    ELSE 0

\* a resolution that looks at bits_per_raw_sample before bits_per_sample and
\* never at the sample format
BitDepthOf_RawFirst(audio_stream) ==
    IF audio_stream.bits_per_raw_sample # <<>> /\ audio_stream.bits_per_raw_sample[1] # 0
    THEN audio_stream.bits_per_raw_sample[1]
    ELSE IF audio_stream.bits_per_sample # <<>> /\ audio_stream.bits_per_sample[1] # 0
    THEN audio_stream.bits_per_sample[1]
    ELSE -1

\* lines 207-227: bit_depth, -1 when no method gives one
BitDepthOf(audio_stream) ==
    IF audio_stream.bits_per_sample # <<>> /\ audio_stream.bits_per_sample[1] # 0
    THEN audio_stream.bits_per_sample[1]
    ELSE IF audio_stream.bits_per_raw_sample # <<>> /\ audio_stream.bits_per_raw_sample[1] # 0
    THEN audio_stream.bits_per_raw_sample[1]
    ELSE IF audio_stream.sample_fmt # <<>>
    THEN LET sample_fmt == audio_stream.sample_fmt[1]
         IN  IF Contains(sample_fmt, <<"1", "6">>) THEN 16
             ELSE IF Contains(sample_fmt, <<"2", "4">>) THEN 24
             ELSE IF Contains(sample_fmt, <<"3", "2">>) THEN 32
             ELSE -1
    ELSE -1

\* audio_stream.get(field, default)
Get(field, default) == IF field = <<>> THEN default ELSE field[1]

\* lines 229-238: bitrate in kbps
BitrateOf(audio_stream, bit_depth) ==
    IF audio_stream.bit_rate # <<>> /\ audio_stream.bit_rate[1] # 0
    THEN audio_stream.bit_rate[1] \div 1000
    ELSE (Get(audio_stream.sample_rate, -1) * bit_depth * Get(audio_stream.channels, 1))
             \div 1000

\* the outcome of a call that raises
ProbeError(error, probed) ==
    [error |-> error, probed |-> probed, bit_depth |-> -1, sample_rate |-> -1,
     channels |-> -1, bitrate |-> -1]

\* get_audio_info; probed: ffmpeg.probe was called
GetAudioInfoOf(in) ==
    IF ~in.ffmpeg THEN ProbeError("ffmpeg_missing", FALSE)
    ELSE IF in.probe_raises THEN ProbeError("probe_failed", TRUE)
    ELSE IF FirstAudio(in.streams) = 0 THEN ProbeError("no_audio_stream", TRUE)
    ELSE LET audio_stream == in.streams[FirstAudio(in.streams)]
             bit_depth == BitDepthOf(audio_stream)
             bitrate == BitrateOf(audio_stream, bit_depth)
         IN  IF bit_depth < 0 THEN ProbeError("no_bit_depth", TRUE)
             ELSE IF bitrate < 0 THEN ProbeError("no_bitrate", TRUE)
             ELSE [error |-> "none", probed |-> TRUE, bit_depth |-> bit_depth,
                   sample_rate |-> Get(audio_stream.sample_rate, 44100),
                   channels |-> Get(audio_stream.channels, 2),
                   bitrate |-> bitrate]

\* the call get_audio_info(file_path) on a file with the given report
GetAudioInfo ==
    /\ call.fn = "get_audio_info"
    /\ ~call.done
    /\ call' = [call EXCEPT !.done = TRUE, !.ret = GetAudioInfoOf(call.arg)]
    /\ UNCHANGED runVars

InitProbe ==
    /\ AtRest
    /\ \E in \in ProbeInputs :
           call = [fn |-> "get_audio_info", arg |-> in, done |-> FALSE,
                   ret |-> ProbeError("none", FALSE)]

NextProbe == GetAudioInfo

SpecProbe == InitProbe /\ [][NextProbe]_vars

----------------------------------------------------------------------------
(* utils.py: the format registry on any text *)

\* str.upper, letter by letter
UpperChar(c) ==
    CASE c = "a" -> "A" [] c = "c" -> "C" [] c = "f" -> "F" [] c = "g" -> "G"
      [] c = "i" -> "I" [] c = "l" -> "L" [] c = "m" -> "M" [] c = "o" -> "O"
      [] c = "p" -> "P" [] c = "v" -> "V" [] c = "w" -> "W" [] OTHER -> c

StrUpper(s) == [k \in DOMAIN s |-> UpperChar(s[k])]

\* the spellings of a word in every letter case
Casings(word) ==
    {[k \in DOMAIN word |-> IF k \in upper THEN UpperChar(word[k]) ELSE word[k]] :
        upper \in SUBSET DOMAIN word}

\* the format names of the command line, a name of neither table
TargetWords ==
    {<<"a", "i", "f", "f">>, <<"f", "l", "a", "c">>, <<"w", "a", "v">>,
     <<"a", "l", "a", "c">>, <<"m", "p", "3">>}

OtherWords == {<<"m", "4", "a">>, <<"o", "g", "g">>}

\* the texts a lookup is given: every spelling of the words, the empty string, None
FormatNames == UNION {Casings(w) : w \in TargetWords \cup OtherWords} \cup {<<>>, None}

\* the codes get_file_type_name is given
FileTypeCodes == {-1, 0, 1, 2, 4, 5, 11, 12, 99}

\* a table that names code 4 after the codec
get_file_type_name_AlacFor4(file_type_code) ==
    CASE file_type_code \in {0, 1} -> <<"M", "P", "3">>
      [] file_type_code = 4 -> <<"A", "L", "A", "C">>
      [] file_type_code = 5 -> <<"F", "L", "A", "C">>
      [] file_type_code = 11 -> <<"W", "A", "V">>
      [] file_type_code = 12 -> <<"A", "I", "F", "F">>
      [] OTHER -> <<"?">>

\* get_file_type_name: <<"?">> stands for the ValueError "Unknown file_type"
get_file_type_name(file_type_code) ==
    CASE file_type_code \in {0, 1} -> <<"M", "P", "3">>
      [] file_type_code = 4 -> <<"M", "4", "A">>
      [] file_type_code = 5 -> <<"F", "L", "A", "C">>
      [] file_type_code = 11 -> <<"W", "A", "V">>
      [] file_type_code = 12 -> <<"A", "I", "F", "F">>
      [] OTHER -> <<"?">>

\* get_file_type_for_format: -1 stands for the ValueError of an empty name
\* ("Format name cannot be empty or None") and of a name without an entry
get_file_type_for_format(format_name) ==
    IF format_name \in {<<>>, None} THEN -1
    ELSE LET key == StrUpper(format_name)
         IN  CASE key = <<"M", "P", "3">> -> 1
               [] key = <<"M", "4", "A">> -> 4
               [] key = <<"F", "L", "A", "C">> -> 5
               [] key = <<"W", "A", "V">> -> 11
               [] key = <<"A", "I", "F", "F">> -> 12
               [] OTHER -> -1

\* get_extension_for_format: "?" stands for the ValueError
get_extension_for_format(format_name) ==
    IF format_name \in {<<>>, None} THEN "?"
    ELSE LET key == StrUpper(format_name)
         IN  CASE key = <<"M", "P", "3">> -> ".mp3"
               [] key = <<"A", "I", "F", "F">> -> ".aiff"
               [] key = <<"F", "L", "A", "C">> -> ".flac"
               [] key = <<"W", "A", "V">> -> ".wav"
               [] key = <<"A", "L", "A", "C">> -> ".m4a"
               [] OTHER -> "?"

\* the lookups are called on a name and on a code; file_type, extension and
\* name hold what they returned (<<>> and "" before the call)
InitRegistry ==
    /\ AtRest
    /\ \E format_name \in FormatNames, file_type_code \in FileTypeCodes :
           call = [fn |-> "none", format_name |-> format_name,
                   file_type_code |-> file_type_code, file_type |-> <<>>,
                   extension |-> "", name |-> <<>>]

GetFileTypeForFormat ==
    /\ call.fn = "none"
    /\ call' = [call EXCEPT !.fn = "get_file_type_for_format",
                            !.file_type = <<get_file_type_for_format(call.format_name)>>]
    /\ UNCHANGED runVars

GetExtensionForFormat ==
    /\ call.fn = "none"
    /\ call' = [call EXCEPT !.fn = "get_extension_for_format",
                            !.extension = get_extension_for_format(call.format_name)]
    /\ UNCHANGED runVars

\* get_file_type_name of the given code, or of the code the name lookup returned
GetFileTypeName ==
    \/ /\ call.fn = "none"
       /\ call' = [call EXCEPT !.fn = "get_file_type_name",
                               !.name = get_file_type_name(call.file_type_code)]
       /\ UNCHANGED runVars
    \/ /\ call.fn = "get_file_type_for_format"
       /\ call.file_type # <<-1>>
       /\ call' = [call EXCEPT !.fn = "get_file_type_name",
                               !.file_type_code = call.file_type[1],
                               !.name = get_file_type_name(call.file_type[1])]
       /\ UNCHANGED runVars

NextRegistry ==
    \/ GetFileTypeForFormat
    \/ GetExtensionForFormat
    \/ GetFileTypeName

SpecRegistry == InitRegistry /\ [][NextRegistry]_vars

----------------------------------------------------------------------------
(* convert.py: convert_to_lossless *)

\* the bit depths get_audio_info(input_path) reports; -1: it raises
SourceDepths == {-1, 8, 16, 20, 24, 32}

\* the output_format values the function is called with
LosslessTargets == {"aiff", "wav", "flac", "alac", "mp3", "ogg", "AIFF"}

\* what `.run()` does: returns, raises ffmpeg.Error, raises another exception
RunOutcomes == {"ok", "FfmpegError", "Exception"}

\* codec_maps: the codec of a container for a bit depth, "" for no entry
CodecMap(output_format, bit_depth) ==
    CASE output_format = "aiff" /\ bit_depth = 16 -> "pcm_s16be"
      [] output_format = "aiff" /\ bit_depth = 24 -> "pcm_s24be"
      [] output_format = "aiff" /\ bit_depth = 32 -> "pcm_s32be"
      [] output_format = "wav" /\ bit_depth = 16 -> "pcm_s16le"
      [] output_format = "wav" /\ bit_depth = 24 -> "pcm_s24le"
      [] output_format = "wav" /\ bit_depth = 32 -> "pcm_s32le"
      [] OTHER -> ""

\* a selection that takes the container's 16-bit codec whatever the source
CodecFor_Always16(output_format, bit_depth) ==
    IF output_format \in {"flac", "alac"} THEN output_format
    ELSE CodecMap(output_format, 16)

\* lines 58-63: codec_map None gives the format name; otherwise
\* codec_map.get(bit_depth, list(codec_map.values())[0])
CodecFor(output_format, bit_depth) ==
    IF output_format \in {"flac", "alac"} THEN output_format
    ELSE IF CodecMap(output_format, bit_depth) # "" THEN CodecMap(output_format, bit_depth)
    ELSE CodecMap(output_format, 16)

\* line 65: the one message logged between the codec selection and the encoder
\* call, at debug level, with the arguments of its format string
SelectionLog(bit_depth, codec) ==
    <<[level |-> "debug", text |-> "Converting {bit_depth}-bit using codec: {codec}",
       bit_depth |-> bit_depth, codec |-> codec]>>

\* convert_to_lossless: raised names the exception that leaves the function,
\* returned its return value, acodec the codec handed to the encoder ("" when
\* the encoder is not run), log the messages logged before the encoder runs
ConvertToLosslessOf(in) ==
    IF ~in.ffmpeg
    THEN [raised |-> "ffmpeg_missing", returned |-> FALSE, acodec |-> "", log |-> <<>>]
    ELSE IF in.bit_depth = -1
    THEN [raised |-> "probe_failed", returned |-> FALSE, acodec |-> "", log |-> <<>>]
    ELSE IF in.output_format \notin {"aiff", "wav", "flac", "alac"}
    THEN [raised |-> "unsupported_format", returned |-> FALSE, acodec |-> "", log |-> <<>>]
    ELSE [raised |-> "none", returned |-> in.run = "ok",
          acodec |-> CodecFor(in.output_format, in.bit_depth),
          log |-> SelectionLog(in.bit_depth, CodecFor(in.output_format, in.bit_depth))]

ConvertToLossless ==
    /\ call.fn = "convert_to_lossless"
    /\ ~call.done
    /\ call' = [call EXCEPT !.done = TRUE, !.ret = ConvertToLosslessOf(call.arg)]
    /\ UNCHANGED runVars

InitCodec ==
    /\ AtRest
    /\ \E in \in [ffmpeg : BOOLEAN, bit_depth : SourceDepths,
                  output_format : LosslessTargets, run : RunOutcomes] :
           call = [fn |-> "convert_to_lossless", arg |-> in, done |-> FALSE,
                   ret |-> [raised |-> "none", returned |-> FALSE, acodec |-> "",
                            log |-> <<>>]]

NextCodec == ConvertToLossless

SpecCodec == InitCodec /\ [][NextCodec]_vars

----------------------------------------------------------------------------
(* utils.py: confirm *)

\* largest number of lines the operator types at one prompt
MaxLines == 2

\* a line the operator types, letter by letter
TypedLines == {<<>>, <<"y">>, <<"Y">>, <<"n">>, <<"N">>, <<"q">>, <<"Q">>, <<"y", "e", "s">>}

TypedUpTo(n) == UNION {[1..k -> TypedLines] : k \in 0..n}

\* choices that offer the quit answer in every mode
Choices_AlwaysQuit(binary, abort) == {<<"y">>, <<"n">>, <<"q">>}

\* lines 277-286: the choices of the prompt
Choices(binary, abort) ==
    IF abort \/ binary THEN {<<"y">>, <<"n">>} ELSE {<<"y">>, <<"n">>, <<"q">>}

\* click.prompt with click.Choice(choices, case_sensitive=False) on one line:
\* an empty line is the default choice, a choice is matched in lower case and
\* returned as listed; <<>> stands for a line that is refused
PromptValue(line, default, choices) ==
    IF line = <<>> THEN (IF default THEN <<"y">> ELSE <<"n">>)
    ELSE IF StrLower(line) \in choices THEN StrLower(line)
    ELSE <<>>

\* click.prompt: asks again after a refused line; "Abort" when the input ends
RECURSIVE ClickPrompt(_, _, _)
ClickPrompt(lines, default, choices) ==
    IF lines = <<>> THEN <<"Abort">>
    ELSE IF PromptValue(Head(lines), default, choices) # <<>>
    THEN PromptValue(Head(lines), default, choices)
    ELSE ClickPrompt(Tail(lines), default, choices)

\* confirm: "True", "False", "UserQuit" (raised) or "Abort" (click.Abort raised)
ConfirmOf(in) ==
    LET response == ClickPrompt(in.lines, in.default, Choices(in.binary, in.abort))
    IN  CASE response = <<"Abort">> -> "Abort"
          [] StrLower(response) = <<"y">> -> "True"
          [] StrLower(response) = <<"n">> -> IF in.abort THEN "UserQuit" ELSE "False"
          [] StrLower(response)[1] = "q" -> "UserQuit"

ConfirmCall ==
    /\ call.fn = "confirm"
    /\ ~call.done
    /\ call' = [call EXCEPT !.done = TRUE, !.ret = ConfirmOf(call.arg)]
    /\ UNCHANGED runVars

InitConfirm ==
    /\ AtRest
    /\ \E in \in [lines : TypedUpTo(MaxLines), default : BOOLEAN, binary : BOOLEAN,
                  abort : BOOLEAN] :
           call = [fn |-> "confirm", arg |-> in, done |-> FALSE, ret |-> "none"]

NextConfirm == ConfirmCall

SpecConfirm == InitConfirm /\ [][NextConfirm]_vars

----------------------------------------------------------------------------
(* convert.py: runs whose session rollback raises *)

\* confirmed, non-interactive batches
UnattendedFlags == {o \in BatchFlags : o.yes /\ ~o.dry_run /\ ~o.interactive}

\* the preconditions hold; db.session.rollback() may raise (the case of
\* test_rollback_and_cleanup_handles_rollback_exception)
RollbackMayRaise == {e \in Environments : ~e.rekordbox_pid /\ e.ffmpeg /\ e.session}

InitCleanup == InitWith(UnattendedFlags, RollbackMayRaise, Libraries)

SpecCleanup == InitCleanup /\ [][Next]_vars

----------------------------------------------------------------------------
(* Properties *)

Range(seq) == {seq[k] : k \in 1..Len(seq)}

Exited == pc = "exited"

\* C1: an invocation that ends without a successful commit leaves on disk no
\* file the encoder wrote during it (the output of the candidate in work
\* included) and commits no catalog mutation.
C1_NoStrayOutputWithoutCommit ==
    (Exited /\ ~obs.committed) =>
        /\ \A p \in obs.written : ~Exists(fs, p)
        /\ durable = Catalog

\* C2: from a successful commit on, termination and an interrupt during
\* POSTPROCESS included, every record this invocation mutated points to a
\* file that exists.
C2_CommittedRecordsPointToFiles ==
    obs.committed =>
        \A k \in 1..Len(converted) : Exists(fs, durable[converted[k].content_id].path)

EncodeFailed == Exited /\ obs.error[1] \in {"encode_failed", "encode_raised"}

\* C3 as claimed: when candidate k fails at the encode step, commit is never
\* called, rollback is called exactly once, every output written for the
\* candidates before k is deleted, and the exit status is nonzero.
C3_EncodeFailureDeletesEarlierOutputs ==
    EncodeFailed =>
        /\ obs.commits = 0
        /\ obs.rollbacks = 1
        /\ \A p \in OutputsOf(converted) : ~Exists(fs, p)
        /\ exit_code = 1

\* C3 as amended: when candidate k fails at the encode step, commit is never
\* called, rollback is called exactly once, the removal of every output
\* written for the candidates before k is attempted and each of them is gone
\* unless its removal failed, and the exit status is nonzero.
C3_EncodeFailureCleansEarlierOutputs ==
    EncodeFailed =>
        /\ obs.commits = 0
        /\ obs.rollbacks = 1
        /\ OutputsOf(converted) \subseteq obs.cleaned
        /\ \A p \in OutputsOf(converted) : ~Exists(fs, p) \/ p \in obs.unremoved
        /\ durable = Catalog
        /\ exit_code = 1

C3_Witness ==
    /\ EncodeFailed
    /\ Len(converted) = 1
    /\ Len(obs.encoded) = 2
    /\ \A p \in OutputsOf(converted) : p \in obs.written /\ ~Exists(fs, p)
    /\ obs.rollbacks = 1
    /\ exit_code = 1

\* C4: commit is called at most once, only when the conversion loop has
\* finished with every candidate, and never after a rollback; the catalog
\* changes only by that commit, which makes every staged mutation of the run
\* durable together.
C4_SingleCommitAfterLoop ==
    [][/\ obs'.commits # obs.commits =>
            /\ obs.commits = 0 /\ obs'.commits = 1
            /\ pc = "loop" /\ idx = Len(files) + 1
            /\ obs.rollbacks = 0
       /\ obs.rollbacks > 0 => obs'.commits = obs.commits
       /\ durable' # durable =>
            /\ obs'.commits # obs.commits
            /\ durable' = staged
            /\ \A k \in 1..Len(converted) :
                   durable'[converted[k].content_id].path = converted[k].output_path]_vars

C4_Witness ==
    /\ obs.committed
    /\ Len(converted) = 2
    /\ \A k \in 1..2 : durable[converted[k].content_id].path = converted[k].output_path

StagesMismatch(formats) ==
    /\ pc = "stage"
    /\ obs'.queries = obs.queries + 1
    /\ obs'.probed # -1
    /\ Upper(opt.format_out) \in formats
    /\ staged[files[idx]].BitDepth # 0
    /\ obs'.probed # staged[files[idx]].BitDepth

\* the mismatch error naming both values, nothing changed in the record, and the abort
MismatchAborts ==
    /\ obs'.error = <<"bit_depth_mismatch", staged[files[idx]].BitDepth, obs'.probed>>
    /\ staged' = durable
    /\ staged'[files[idx]] = staged[files[idx]]
    /\ obs'.rollbacks = obs.rollbacks + 1
    /\ obs'.cleaned = obs.cleaned \cup OutputsOf(converted)
    /\ obs'.commits = 0
    /\ durable' = Catalog
    /\ pc' = "exited"
    /\ exit_code' = 1

CommitFailed == Exited /\ obs.error = <<"commit_failed">>

\* C7 as claimed: when the commit fails the transaction is rolled back, every
\* output in the converted set is deleted, no source is deleted and the exit
\* status is nonzero.
C7_FailedCommitDeletesOutputs ==
    CommitFailed =>
        /\ obs.rollbacks = 1
        /\ staged = Catalog /\ durable = Catalog
        /\ \A p \in OutputsOf(converted) : ~Exists(fs, p)
        /\ obs.src_removed = {}
        /\ exit_code = 1

\* C7 as amended: when the commit fails the transaction is rolled back, the
\* removal of every output in the converted set is attempted and each is gone
\* unless its removal failed, no source deletion is attempted and the exit
\* status is nonzero.
C7_FailedCommitCleansOutputs ==
    CommitFailed =>
        /\ obs.rollbacks = 1
        /\ staged = Catalog /\ durable = Catalog
        /\ OutputsOf(converted) \subseteq obs.cleaned
        /\ \A p \in OutputsOf(converted) : ~Exists(fs, p) \/ p \in obs.unremoved
        /\ obs.src_removed = {}
        /\ exit_code = 1

C7_Witness ==
    /\ CommitFailed
    /\ Len(converted) = 2
    /\ obs.commits = 1
    /\ \A p \in OutputsOf(converted) : ~Exists(fs, p)
    /\ \A p \in SourcesOf(converted) \ OutputsOf(converted) : Exists(fs, p)

\* C8: the conflict policy.  With overwrite every candidate proceeds; without
\* it the candidates whose output exists are excluded, silently under --yes
\* and with a warning naming their count otherwise; without conflicts every
\* candidate proceeds; when exclusion leaves nothing the run ends with status
\* 0 and nothing encoded.
C8_ConflictPolicy ==
    [][(pc = "conflict" /\ pc' # "conflict" /\ ~obs'.interrupted) =>
        LET conflicting == {c \in Range(files) :
                               Exists(fs, OutputPath(Catalog[c], opt.format_out))}
            proceeding == IF opt.overwrite THEN Range(files) ELSE Range(files) \ conflicting
        IN  /\ obs'.warned =
                   IF conflicting # {} /\ ~opt.overwrite /\ ~opt.yes
                   THEN Cardinality(conflicting) ELSE -1
            /\ IF proceeding = {}
               THEN pc' = "exited" /\ exit_code' = 0 /\ obs'.encoded = <<>>
               ELSE /\ pc' = "preview"
                    /\ Range(files') = proceeding
                    /\ Len(files') = Cardinality(proceeding)]_vars

C8_Witness ==
    /\ pc = "preview"
    /\ obs.warned = 1
    /\ Len(files) = 1
    /\ ~opt.overwrite /\ ~opt.yes

\* the deletion default matrix
DeletionMatrix(delete, format_out) ==
    CASE delete = "delete" -> TRUE
      [] delete = "keep" -> FALSE
      [] OTHER -> format_out \in {"aiff", "flac", "wav", "alac"}

C10_LossyAndTargetNeverCandidates ==
    \A c \in IDs :
        (\/ Catalog[c].FileType \in {0, 1, 4}
         \/ FileTypeName(Catalog[c].FileType) = Upper(opt.format_out)) =>
            /\ c \notin Range(files)
            /\ c \notin Range(obs.encoded)
            /\ staged[c] = Catalog[c]
            /\ durable[c] = Catalog[c]

\* the number of batch-level questions asked so far
BatchQuestions == Cardinality({k \in 1..Len(obs.prompts) : obs.prompts[k] = "batch"})

\* C11: unless the run is auto-confirmed with --yes, exactly one batch-level
\* question has been asked before the first encoder invocation (also under
\* --interactive), and the answer No or Quit ends the run with nothing
\* encoded, no catalog mutation and no file change.
C11_OneBatchQuestionUnlessYes ==
    /\ BatchQuestions <= 1
    /\ (~opt.yes /\ (pc \in {"loop", "stage", "post"} \/ obs.encoded # <<>>)) =>
           /\ BatchQuestions = 1
           /\ obs.batch_answer \in {<<"y">>, <<"">>}
    /\ obs.batch_answer \in {<<"n">>, <<"q">>} =>
           /\ Exited /\ exit_code = 0
           /\ obs.encoded = <<>>
           /\ staged = Catalog /\ durable = Catalog
           /\ fs = InitialFs

UserQuit == Exited /\ obs.error = <<"user_quit">>

\* C12 as claimed: quitting at the per-file prompt of candidate k rolls back
\* every mutation staged so far and deletes every output in the converted
\* set; commit is never called and no source is deleted.
C12_QuitDeletesOutputs ==
    UserQuit =>
        /\ opt.interactive
        /\ obs.rollbacks = 1
        /\ staged = Catalog /\ durable = Catalog
        /\ \A p \in OutputsOf(converted) : ~Exists(fs, p)
        /\ obs.commits = 0
        /\ obs.src_removed = {}

\* C12 as amended: quitting at the per-file prompt of candidate k rolls back
\* every mutation staged so far and attempts the removal of every output in
\* the converted set, each of which is gone unless its removal failed; commit
\* is never called and no deletion of a source is attempted.
C12_QuitCleansOutputs ==
    UserQuit =>
        /\ opt.interactive
        /\ obs.rollbacks = 1
        /\ staged = Catalog /\ durable = Catalog
        /\ OutputsOf(converted) \subseteq obs.cleaned
        /\ \A p \in OutputsOf(converted) : ~Exists(fs, p) \/ p \in obs.unremoved
        /\ obs.commits = 0
        /\ obs.src_removed = {}

C12_Witness ==
    /\ UserQuit
    /\ Len(converted) = 1
    /\ Len(files) = 2
    /\ obs.prompts = <<"file", "file">>
    /\ \A p \in OutputsOf(converted) : p \in obs.written /\ ~Exists(fs, p)
    /\ staged = Catalog

\* C13: with --dry-run the run never goes beyond PREVIEW: nothing is encoded,
\* no catalog field is mutated, commit is never called, no file is created or
\* deleted, no batch question is asked; the PREVIEW step ends the run with
\* status 0.
C13_DryRunStopsAfterPreview ==
    [][opt.dry_run =>
        /\ pc' \notin {"confirm", "loop", "stage", "post"}
        /\ obs'.encoded = <<>>
        /\ staged' = Catalog /\ durable' = Catalog
        /\ obs'.commits = 0
        /\ fs' = InitialFs
        /\ BatchQuestions' = 0
        /\ (pc = "preview" /\ ~obs'.interrupted) => pc' = "exited" /\ exit_code' = 0]_vars

C13_Witness ==
    /\ opt.dry_run
    /\ Exited /\ obs.error = <<"dry_run">>
    /\ Len(files) = 2
    /\ exit_code = 0

Declined == obs.rekordbox_answer \in {<<"n">>, <<"">>, <<"q">>}

\* C14 as claimed: a catalog session is open only if both PRECHECK checks
\* passed (Rekordbox not running or the operator confirmed, and ffmpeg
\* found); if ffmpeg is missing the run ends with nonzero status in every
\* mode, dry-run included, without a session.
C14_MissingEncoderAlwaysFails ==
    /\ db => /\ env.ffmpeg
             /\ env.rekordbox_pid => obs.rekordbox_answer = <<"y">>
    /\ ~env.ffmpeg => ~db /\ pc \in {"start", "precheck", "exited"}
    /\ (~env.ffmpeg /\ Exited) => exit_code \in {1, 2}

\* C14 as amended: a catalog session is open only if both PRECHECK checks
\* passed; if ffmpeg is missing no session is opened in any mode, dry-run
\* included, and the run ends with nonzero status unless the operator
\* declined to continue with Rekordbox running, which ends it with status 0
\* before the ffmpeg check.
C14_MissingEncoderFailsUnlessDeclined ==
    /\ db => /\ env.ffmpeg
             /\ env.rekordbox_pid => obs.rekordbox_answer = <<"y">>
    /\ ~env.ffmpeg => ~db /\ pc \in {"start", "precheck", "exited"}
    /\ (~env.ffmpeg /\ Exited) =>
           IF Declined THEN exit_code = 0 /\ env.rekordbox_pid ELSE exit_code \in {1, 2}

C14_Witness ==
    /\ ~env.ffmpeg
    /\ opt.dry_run
    /\ Exited /\ obs.error = <<"ffmpeg_missing">>
    /\ exit_code = 1
    /\ ~db

\* C15: with Rekordbox running, an unattended or scripted invocation
\* (--print ids or silent, or --yes) fails at once with nonzero status and
\* never shows a prompt.
C15_UnattendedNeverPrompts ==
    (env.rekordbox_pid /\ (ScriptingMode \/ opt.yes)) =>
        /\ obs.prompts = <<>>
        /\ pc \in {"start", "precheck", "exited"}
        /\ ~db
        /\ Exited => exit_code \in {1, 2}

\* C16: with Rekordbox running and an attended invocation, exactly one
\* confirmation is asked, whose default is No; the answers No, empty and Quit
\* end the run with status 0, no catalog session, nothing encoded and no file
\* changed.
C16_RunningRekordboxAsksOnce ==
    [][/\ (pc = "precheck" /\ env.rekordbox_pid /\ ~ScriptingMode /\ ~opt.yes
            /\ ~obs'.interrupted) =>
            /\ obs'.prompts = <<"rekordbox">>
            /\ Len(obs'.rekordbox_answer) = 1
            /\ Declined' =>
                   /\ pc' = "exited" /\ exit_code' = 0
                   /\ ~db'
                   /\ obs'.encoded = <<>>
                   /\ fs' = InitialFs
                   /\ staged' = Catalog /\ durable' = Catalog
       /\ Cardinality({k \in 1..Len(obs'.prompts) : obs'.prompts[k] = "rekordbox"}) <= 1]_vars

C16_Witness ==
    /\ env.rekordbox_pid /\ ~ScriptingMode /\ ~opt.yes
    /\ obs.rekordbox_answer = <<"">>
    /\ obs.prompts = <<"rekordbox">>
    /\ Exited /\ exit_code = 0
    /\ ~db

\* C17: the deletion of originals removes a source only after the commit has
\* succeeded and only the source of a record in the converted set; a removal
\* that fails is not fatal: the next sources are still attempted, only the
\* removals that succeeded are counted and the run ends with status 0.
C17_SourcesDeletedAfterCommitOnly ==
    [][/\ obs'.src_removed # obs.src_removed =>
            /\ obs.committed /\ pc = "post" /\ pc' = "post"
            /\ obs'.src_removed = obs.src_removed \cup {converted[idx].source_path}
            /\ idx' = idx + 1
            /\ obs'.deleted_count = obs.deleted_count +
                   (IF Exists(fs, converted[idx].source_path)
                       /\ ~Exists(fs', converted[idx].source_path) THEN 1 ELSE 0)
       /\ obs'.src_removed \subseteq SourcesOf(converted)
       /\ (pc = "post" /\ pc' = "exited" /\ ~obs'.interrupted) =>
            /\ exit_code' = 0
            /\ ShouldDelete => obs.src_removed = SourcesOf(converted)
            /\ ~ShouldDelete => obs.src_removed = {}
            /\ obs.deleted_count <= Len(converted)]_vars

C17_Witness ==
    /\ Exited /\ obs.error = <<"done">>
    /\ Len(converted) = 2
    /\ obs.src_removed = SourcesOf(converted)
    /\ obs.deleted_count = 1
    /\ Exists(fs, converted[1].source_path)
    /\ ~Exists(fs, converted[2].source_path)
    /\ exit_code = 0

\* C18: staging a record sets its path (file name and folder path) to the
\* output path and its format code to the code of the target format; its bit
\* rate becomes the probed bit rate of the output, and 0 when the target is
\* FLAC; nothing else of the record and no other record changes.
C18_StagedFields ==
    [][(pc = "stage" /\ pc' = "loop") =>
        LET c == files[idx]
            target == Upper(opt.format_out)
        IN  /\ staged'[c].path = <<staged[c].path[1], ExtensionForFormat(target)>>
            /\ Exists(fs, staged'[c].path)
            /\ staged'[c].FileType =
                   (CASE target = "AIFF" -> 12 [] target = "FLAC" -> 5
                      [] target = "WAV" -> 11 [] target = "MP3" -> 1 [] OTHER -> -1)
            /\ staged'[c].BitRate =
                   IF target = "FLAC" THEN 0 ELSE ProbeBitrate(target, obs'.probed)
            /\ staged'[c].BitDepth = staged[c].BitDepth
            /\ \A other \in IDs \ {c} : staged'[other] = staged[other]
            /\ durable' = durable]_vars

C18_Witness ==
    /\ pc = "loop"
    /\ Len(converted) = 2
    /\ opt.format_out = "flac"
    /\ staged[2] = Rec(5, "b", ".flac", 24, 0)
    /\ staged[4] = Rec(5, "c", ".flac", 16, 0)
    /\ durable = Catalog

\* the candidate filter leaves none of the matched records
NothingToConvert ==
    \A c \in Range(matched) :
        ~IsCandidate(Catalog[c], FileTypeForFormat(opt.format_out), 1, 4)

\* C19: when the filter matches no record, or every matched record is
\* excluded, or the loop ends with an empty converted set, the run ends with
\* status 0, commit is never called, nothing was encoded and the catalog is
\* as it was.
C19_NothingToDoExitsZero ==
    [][((pc = "query" /\ NothingToConvert)
          \/ (pc = "conflict" /\ pc' = "exited")
          \/ (pc = "loop" /\ LoopFinished(idx, files) /\ converted = <<>>))
        /\ ~obs'.interrupted =>
            /\ pc' = "exited"
            /\ exit_code' = 0
            /\ obs'.commits = 0
            /\ obs'.encoded = <<>> /\ obs'.written = {}
            /\ converted' = <<>>
            /\ staged' = Catalog /\ durable' = Catalog]_vars

\* the ends that are a success or a clean no-op: conversion done, dry run,
\* nothing to convert, batch declined, and a quit before anything was staged
CleanEnd ==
    \/ obs.error[1] \in {"done", "dry_run", "no_files", "all_conflict", "none_converted",
                         "cancelled", "declined"}
    \/ obs.error = <<"user_quit">> /\ converted = <<>>

\* C20: the exit status is 0 exactly on success or a clean no-op, and nonzero
\* on every precondition failure, every batch abort (the operator quitting
\* mid-loop after work was staged included) and every commit failure.
C20_ExitStatus ==
    Exited => (exit_code = 0 <=> CleanEnd)

\* the conditions of the query get_filtered_content executed in the last call
FilterConditions == FilteredQuery(call.arg.args).conditions

MatchingAny(conditions) == {c \in IDs : \E k \in DOMAIN conditions : Holds(conditions[k], c)}

MatchingAll(conditions) == {c \in IDs : \A k \in DOMAIN conditions : Holds(conditions[k], c)}

\* C21: get_filtered_content combines its filters with OR by default and with
\* AND only when match_all is given: without match_all and with two or more
\* conditions it returns the records that match any one of them, with
\* match_all exactly the records that match all of them.
C21_AnyByDefaultAllOnRequest ==
    (call.fn = "get_filtered_content" /\ call.ret.error = "none") =>
        /\ (~call.arg.args.match_all /\ Len(FilterConditions) >= 2) =>
               call.ret.rows = MatchingAny(FilterConditions)
        /\ call.arg.args.match_all => call.ret.rows = MatchingAll(FilterConditions)

ByBuilders == {"by_track_ids", "by_artist", "by_title", "by_album", "by_playlist", "by_format"}

\* the last call was a builder call with a valid argument: a text that is not
\* None, a format name the registry has a code for
ValidBuilderCall ==
    /\ call.fn \in Builders
    /\ call.fn \in {"by_artist", "by_title", "by_album", "by_playlist"} => call.arg.args[1] # None
    /\ call.fn = "by_format" => FileTypeForFormat(call.arg.args[1]) # -1

\* C22: every builder of CollectionQuery called with a valid argument returns
\* a new query and leaves the receiver's conditions, limit and match flag as
\* they were; each by_* builder adds exactly one condition to the new query
\* and changes neither its limit nor its match flag.
C22_BuildersCopyAndAddOneCondition ==
    ValidBuilderCall =>
        LET self == call.arg.self
            new == call.ret.new
        IN  /\ new.id # self.id
            /\ call.ret.self.conditions = self.conditions
            /\ call.ret.self.limit_count = self.limit_count
            /\ call.ret.self.match_all = self.match_all
            /\ call.fn \in ByBuilders =>
                   /\ Len(new.conditions) = Len(self.conditions) + 1
                   /\ SubSeq(new.conditions, 1, Len(self.conditions)) = self.conditions
                   /\ new.limit_count = self.limit_count
                   /\ new.match_all = self.match_all

\* the last call of get_audio_info has returned or raised
Probed == call.fn = "get_audio_info" /\ call.done

\* the stream get_audio_info reads, when the report has an audio stream
ProbedStream == call.arg.streams[FirstAudio(call.arg.streams)]

HasAudio == ~call.arg.probe_raises /\ FirstAudio(call.arg.streams) # 0

\* C23: the probe never substitutes default values: it fails without calling
\* the probing tool when the tool is not on the path, it fails when the file
\* has no audio stream and when no bit depth can be resolved, and the result
\* it returns has a bit depth and a bit rate that are not negative, and
\* reports no sample rate or channel count the stream does not have.
C23_ProbeNeverDefaults ==
    Probed =>
        /\ ~call.arg.ffmpeg => (call.ret.error # "none" /\ ~call.ret.probed)
        /\ (call.arg.ffmpeg /\ ~HasAudio) => call.ret.error # "none"
        /\ (call.arg.ffmpeg /\ HasAudio /\ BitDepthOf(ProbedStream) < 0) =>
               call.ret.error # "none"
        /\ call.ret.error = "none" =>
               /\ call.ret.bit_depth >= 0
               /\ call.ret.bitrate >= 0
               /\ ProbedStream.sample_rate = <<call.ret.sample_rate>>
               /\ ProbedStream.channels = <<call.ret.channels>>

\* the bit depth the sample-format tag of the probed stream spells, 0 if none
TagDigits ==
    IF ProbedStream.sample_fmt = <<>> THEN 0
    ELSE IF Contains(ProbedStream.sample_fmt[1], <<"1", "6">>) THEN 16
    ELSE IF Contains(ProbedStream.sample_fmt[1], <<"2", "4">>) THEN 24
    ELSE IF Contains(ProbedStream.sample_fmt[1], <<"3", "2">>) THEN 32
    ELSE 0

\* C24: the bit depth of a probe result is the first of: the bits-per-sample
\* field if present and not zero, the bits-per-raw-sample field if present
\* and not zero, the digits 16, 24 or 32 of the sample-format tag; when none
\* of the three gives one the probe fails.  Once an earlier source matches,
\* the later ones have no influence.
C24_BitDepthFirstMatch ==
    (Probed /\ call.arg.ffmpeg /\ HasAudio) =>
        LET bps == Get(ProbedStream.bits_per_sample, 0)
            raw == Get(ProbedStream.bits_per_raw_sample, 0)
        IN  /\ (call.ret.error = "none" /\ bps # 0) => call.ret.bit_depth = bps
            /\ (call.ret.error = "none" /\ bps = 0 /\ raw # 0) => call.ret.bit_depth = raw
            /\ (call.ret.error = "none" /\ bps = 0 /\ raw = 0) =>
                   (TagDigits # 0 /\ call.ret.bit_depth = TagDigits)
            /\ (bps = 0 /\ raw = 0 /\ TagDigits = 0) => call.ret.error = "no_bit_depth"

\* a probe skipped a zero bits-per-sample, took bits-per-raw-sample and
\* ignored the sample-format tag
C24_Witness ==
    /\ Probed
    /\ call.ret.error = "none"
    /\ HasAudio
    /\ ProbedStream.bits_per_sample = <<0>>
    /\ ProbedStream.bits_per_raw_sample = <<16>>
    /\ ProbedStream.sample_fmt = <<<<"s", "2", "4">>>>
    /\ call.ret.bit_depth = 16

\* C25: the bit rate of a probe result is the stream's bit-rate field divided
\* by 1000 (integer division) when the stream has one; otherwise it is
\* sample rate x bit depth x channel count divided by 1000 for the sample
\* rate, bit depth and channel count of the same result, and the probe fails
\* when the stream has no sample rate.
C25_BitRateFromFieldOrComputed ==
    (Probed /\ call.arg.ffmpeg /\ HasAudio) =>
        LET rate == Get(ProbedStream.bit_rate, 0)
        IN  /\ (call.ret.error = "none" /\ rate # 0) => call.ret.bitrate = rate \div 1000
            /\ (call.ret.error = "none" /\ rate = 0) =>
                   call.ret.bitrate =
                       (call.ret.sample_rate * call.ret.bit_depth * call.ret.channels) \div 1000
            /\ (rate = 0 /\ ProbedStream.sample_rate = <<>>) => call.ret.error # "none"

\* the name is a spelling of one of the five target format names
SupportedName(format_name) == \E w \in TargetWords : format_name \in Casings(w)

\* the name is empty or a spelling of a word neither table has
UnknownName(format_name) == format_name = <<>> \/ format_name \in Casings(<<"o", "g", "g">>)

\* C26: for each of the target format names aiff, flac, wav, alac and mp3, in
\* any letter case, the format-code lookup and the extension lookup both
\* succeed and return what they return for every other casing of the name;
\* for an unknown or empty name both lookups fail.
C26_LookupsAgreeOnTargetNames ==
    /\ call.fn = "get_file_type_for_format" =>
           /\ SupportedName(call.format_name) =>
                  /\ call.file_type # <<-1>>
                  /\ \A other \in Casings(call.format_name) :
                         <<get_file_type_for_format(other)>> = call.file_type
           /\ UnknownName(call.format_name) => call.file_type = <<-1>>
    /\ call.fn = "get_extension_for_format" =>
           /\ SupportedName(call.format_name) =>
                  /\ call.extension # "?"
                  /\ \A other \in Casings(call.format_name) :
                         get_extension_for_format(other) = call.extension
           /\ UnknownName(call.format_name) => call.extension = "?"

\* C27: the code-to-name lookup gives MP3 for 0 and 1, M4A for 4, FLAC for 5,
\* WAV for 11, AIFF for 12 and fails for every other code; and for every name
\* the name-to-code lookup accepts, the name of the returned code is that
\* name in upper case.
C27_CodeNamesAndRoundTrip ==
    call.fn = "get_file_type_name" =>
        /\ call.name =
               (CASE call.file_type_code = 0 -> <<"M", "P", "3">>
                  [] call.file_type_code = 1 -> <<"M", "P", "3">>
                  [] call.file_type_code = 4 -> <<"M", "4", "A">>
                  [] call.file_type_code = 5 -> <<"F", "L", "A", "C">>
                  [] call.file_type_code = 11 -> <<"W", "A", "V">>
                  [] call.file_type_code = 12 -> <<"A", "I", "F", "F">>
                  [] OTHER -> <<"?">>)
        /\ call.file_type # <<>> => call.name = StrUpper(call.format_name)

\* the name of the code looked up for "m4A" is "M4A"
C27_Witness ==
    /\ call.fn = "get_file_type_name"
    /\ call.format_name = <<"m", "4", "A">>
    /\ call.file_type = <<4>>
    /\ call.name = <<"M", "4", "A">>

\* convert_to_lossless was called with the encoder on the path and a source
\* the probe could read, and has returned or raised
Selected28 ==
    /\ call.fn = "convert_to_lossless"
    /\ call.done
    /\ call.arg.ffmpeg
    /\ call.arg.bit_depth # -1

\* C28: codec selection of a lossless conversion of a probed source: flac and
\* alac use one codec whatever the source's bit depth; aiff and wav use the
\* PCM codec of the source's bit depth when it is 16, 24 or 32 (big-endian
\* for aiff, little-endian for wav) and the 16-bit codec of the container for
\* any other bit depth; a target outside aiff, wav, flac and alac raises the
\* unsupported-format error, and then the encoder is not run.
C28_CodecSelection ==
    /\ Selected28 =>
           LET target == call.arg.output_format
               depth == call.arg.bit_depth
               acodec == call.ret.acodec
           IN  /\ target = "flac" => acodec = "flac"
               /\ target = "alac" => acodec = "alac"
               /\ target = "aiff" =>
                      acodec = (CASE depth = 16 -> "pcm_s16be" [] depth = 24 -> "pcm_s24be"
                                  [] depth = 32 -> "pcm_s32be" [] OTHER -> "pcm_s16be")
               /\ target = "wav" =>
                      acodec = (CASE depth = 16 -> "pcm_s16le" [] depth = 24 -> "pcm_s24le"
                                  [] depth = 32 -> "pcm_s32le" [] OTHER -> "pcm_s16le")
               /\ target \notin {"aiff", "wav", "flac", "alac"} =>
                      call.ret.raised = "unsupported_format"
    /\ (call.fn = "convert_to_lossless" /\ call.done
            /\ call.arg.output_format \notin {"aiff", "wav", "flac", "alac"}) =>
           (call.ret.acodec = "" /\ call.ret.raised # "none")

\* a 24-bit source went to wav with the 24-bit little-endian codec
C28_Witness ==
    /\ Selected28
    /\ call.arg.output_format = "wav"
    /\ call.arg.bit_depth = 24
    /\ call.ret.acodec = "pcm_s24le"
    /\ call.ret.returned

\* the answers a prompt of the given mode takes
Offered(in) == IF in.binary \/ in.abort THEN {"y", "n"} ELSE {"y", "n", "q"}

\* what a typed line answers: its letter in lower case, the default for an
\* empty line, "" for anything else
AnswerOf(line, default) ==
    IF line = <<>> THEN (IF default THEN "y" ELSE "n")
    ELSE IF Len(line) = 1 THEN StrLower(line)[1]
    ELSE ""

\* the position of the first typed line that is an offered answer, 0 if none
FirstAnswer(in) ==
    IF \E k \in DOMAIN in.lines : AnswerOf(in.lines[k], in.default) \in Offered(in)
    THEN CHOOSE k \in DOMAIN in.lines :
             /\ AnswerOf(in.lines[k], in.default) \in Offered(in)
             /\ \A j \in 1..(k - 1) : AnswerOf(in.lines[j], in.default) \notin Offered(in)
    ELSE 0

\* C29: confirm returns Yes for y; for n it returns No, and raises UserQuit
\* instead in abort-on-no mode; for q it raises UserQuit.  Answers count in
\* either letter case and an empty line counts as the default.  In binary
\* mode and in abort-on-no mode q is not an answer, so UserQuit there comes
\* from n in abort-on-no mode only.
C29_ConfirmAnswers ==
    (call.fn = "confirm" /\ call.done) =>
        LET in == call.arg
            k == FirstAnswer(in)
            answer == IF k = 0 THEN "" ELSE AnswerOf(in.lines[k], in.default)
        IN  /\ answer = "y" => call.ret = "True"
            /\ (answer = "n" /\ ~in.abort) => call.ret = "False"
            /\ (answer = "n" /\ in.abort) => call.ret = "UserQuit"
            /\ answer = "q" => call.ret = "UserQuit"
            /\ (call.ret = "UserQuit" /\ (in.binary \/ in.abort)) =>
                   (in.abort /\ answer = "n")

\* in abort-on-no mode "Q" was refused and the "N" typed next raised UserQuit
C29_Witness ==
    /\ call.fn = "confirm"
    /\ call.done
    /\ call.arg.abort
    /\ call.arg.lines = <<<<"Q">>, <<"N">>>>
    /\ call.ret = "UserQuit"

\* the run ended because a candidate's source file was gone / because the
\* output was absent after a successful encoder run
SourceVanished == Exited /\ obs.error = <<"source_missing">>

OutputMissing == Exited /\ obs.error = <<"output_missing">>

\* the encoder was not run for the candidates from position k on
NotEncodedFrom(k) == \A j \in k..Len(files) : files[j] \notin Range(obs.encoded)

AtTurn == pc = "loop" /\ idx <= Len(files)

TurnOutput == OutputPath(staged[files[idx]], opt.format_out)

\* the step leaves the candidate at the turn alone and moves to the next one
SkippedStep ==
    /\ pc' = "loop"
    /\ idx' = idx + 1
    /\ obs'.encoded = obs.encoded
    /\ fs'[TurnOutput] = fs[TurnOutput]
    /\ staged' = staged
    /\ converted' = converted

NotInterrupted == obs'.interrupted = obs.interrupted

\* C31 as claimed: whenever the output path of the candidate at the turn
\* exists and overwrite is off, the loop's step skips the candidate: no
\* encoder call, the existing file untouched, nothing staged, nothing added
\* to the converted set, and the loop goes on with the next candidate.
C31_ExistingOutputAlwaysSkips ==
    [][(AtTurn /\ Exists(fs, TurnOutput) /\ ~opt.overwrite /\ NotInterrupted) => SkippedStep]_vars

\* C31: when the output path of the candidate at the turn exists and
\* overwrite is off, the loop's step skips the candidate (no encoder call,
\* the existing file untouched, nothing staged, nothing added to the
\* converted set, next candidate), also for a candidate the batch conflict
\* check had let through, unless the operator quits at that candidate's
\* prompt or the candidate's source file is gone: those two checks come first
\* and end the run.
C31_ExistingOutputSkips ==
    [][(/\ AtTurn /\ Exists(fs, TurnOutput) /\ ~opt.overwrite /\ NotInterrupted
        /\ obs'.error[1] \notin {"user_quit", "source_missing"}) => SkippedStep]_vars

\* a candidate the conflict check let through was skipped at its turn, without
\* a prompt refusal, because its output path had come to exist
C31_Witness ==
    /\ pc = "loop"
    /\ ~opt.overwrite
    /\ \E k \in 1..Len(files) :
        /\ k < idx
        /\ files[k] \notin Range(obs.encoded)
        /\ files[k] \notin obs.refused
        /\ ~Exists(InitialFs, OutputPath(staged[files[k]], opt.format_out))
        /\ Exists(fs, OutputPath(staged[files[k]], opt.format_out))

\* C32: in interactive mode a step in which the operator answers n at the
\* per-file prompt skips that candidate only (no encoder call, no file
\* written, nothing staged or unstaged, nothing added to the converted set,
\* the loop at the next candidate), and when the loop is exhausted with a
\* non-empty converted set the next step of the run calls commit, which on
\* success makes every staged mutation durable.
C32_RefusalSkipsOneCandidate ==
    [][/\ (AtTurn /\ obs'.refused # obs.refused) =>
            /\ opt.interactive
            /\ obs'.refused = obs.refused \cup {files[idx]}
            /\ SkippedStep
            /\ fs' = fs
            /\ obs'.written = obs.written
            /\ obs'.rollbacks = obs.rollbacks
       /\ (pc = "loop" /\ idx > Len(files) /\ converted # <<>> /\ NotInterrupted) =>
            /\ obs'.commits = obs.commits + 1
            /\ pc' = "post" => durable' = staged]_vars

\* the first candidate was refused, the second one converted and committed
C32_Witness ==
    /\ pc = "post"
    /\ Len(files) = 2
    /\ obs.refused = {files[1]}
    /\ IdsOf(converted) = {files[2]}
    /\ obs.encoded = <<files[2]>>
    /\ durable = staged
    /\ durable[files[1]] = Catalog[files[1]]
    /\ durable[files[2]] # Catalog[files[2]]

\* the converted set in one state: no record twice, every entry a candidate
\* the encoder was called for, and, while the run has not ended, exactly the
\* records with a staged mutation (so it is empty iff nothing was staged)
ConvertedSound ==
    /\ Cardinality(IdsOf(converted)) = Len(converted)
    /\ IdsOf(converted) \subseteq Range(obs.encoded)
    /\ ~Exited => IdsOf(converted) = {c \in IDs : staged[c] # Catalog[c]}

\* the step appends one entry, for the candidate in work, after the encoder
\* reported success for it, with its output on disk and its mutation staged
AppendedAfterSuccess ==
    LET c == files[idx]
        e == converted'[Len(converted')]
    IN  /\ pc = "stage"
        /\ converted' = Append(converted, e)
        /\ e.content_id = c
        /\ c \notin IdsOf(converted)
        /\ obs.encoded # <<>>
        /\ obs.encoded[Len(obs.encoded)] = c
        /\ e.source_path = staged[c].path
        /\ e.output_path = OutputPath(staged[c], opt.format_out)
        /\ Exists(fs, e.output_path)
        /\ fs' = fs
        /\ staged'[c].path = e.output_path
        /\ staged'[c].FileType = FileTypeForFormat(opt.format_out)
        /\ \A d \in IDs \ {c} : staged'[d] = staged[d]

\* C33: the converted set changes only by appending the candidate in work
\* after its encoder call reported success, its output was found on disk and
\* its catalog mutation was staged; it never holds a record twice, and while
\* the run lasts its records are exactly the records with a staged mutation,
\* so it is empty iff no candidate completed encoding and staging.
C33_ConvertedSetSound ==
    [][/\ converted' # converted => AppendedAfterSuccess
       /\ ConvertedSound'
       /\ (staged' # staged /\ pc' # "exited") => converted' # converted]_vars

\* two candidates converted and staged, the run still in its loop
C33_Witness ==
    /\ pc = "loop"
    /\ Len(converted) = 2
    /\ \A k \in 1..2 : /\ Exists(fs, converted[k].output_path)
                       /\ staged[converted[k].content_id].path = converted[k].output_path

\* C34: an invocation that opened a catalog session and has ended called
\* exactly one of commit and rollback, once.
C34_SessionEndsByCommitOrRollback ==
    (Exited /\ db) => obs.commits + obs.rollbacks = 1

\* the codec selection fell back: a raw-PCM target and a source bit depth
\* outside the container's table
FellBack ==
    /\ Selected28
    /\ call.ret.raised = "none"
    /\ call.arg.output_format \in {"aiff", "wav"}
    /\ call.arg.bit_depth \notin {16, 24, 32}

\* C35: whenever the codec selection for a raw-PCM target fell back, a message
\* of informational level that names the source's bit depth has been logged
\* before the encoder ran.
C35_FallbackIsAnnounced ==
    FellBack =>
        \E k \in 1..Len(call.ret.log) :
            /\ call.ret.log[k].level = "info"
            /\ call.ret.log[k].bit_depth = call.arg.bit_depth

RolledBack == Exited /\ obs.rollbacks > 0

\* C36: in a run that ended through rollback-and-cleanup, whether or not the
\* session rollback raised, the removal of every output in the converted set
\* was attempted and each of them is gone unless its own removal failed; the
\* run ends with the reason and the exit status of the path that called the
\* routine (0 for a quit, 1 otherwise), never with an error of the routine.
C36_CleanupIsBestEffort ==
    RolledBack =>
        /\ obs.rollbacks = 1
        /\ OutputsOf(converted) \subseteq obs.cleaned
        /\ \A p \in OutputsOf(converted) \ obs.unremoved : ~Exists(fs, p)
        /\ obs.error[1] \in {"user_quit", "source_missing", "encode_raised", "encode_failed",
                             "output_missing", "probe_failed", "unknown_format",
                             "bit_depth_mismatch", "commit_failed", "interrupted"}
        /\ exit_code = (IF obs.error[1] = "user_quit" THEN 0 ELSE 1)

\* the rollback raised, the removal of one of two outputs failed, and the
\* other output was removed all the same
C36_Witness ==
    /\ RolledBack
    /\ env.rollback_raises
    /\ Len(converted) = 2
    /\ converted[1].output_path # converted[2].output_path
    /\ \E k \in 1..2 :
        /\ converted[k].output_path \in obs.unremoved
        /\ Exists(fs, converted[k].output_path)
        /\ converted[3 - k].output_path \notin obs.unremoved
        /\ ~Exists(fs, converted[3 - k].output_path)

Pos(seq, x) == CHOOSE k \in 1..Len(seq) : seq[k] = x

\* sub takes its elements from seq, in the order of seq, each at most once
InOrderOnce(sub, seq) ==
    /\ Range(sub) \subseteq Range(seq)
    /\ \A i, j \in 1..Len(sub) : i < j => Pos(seq, sub[i]) < Pos(seq, sub[j])

\* the candidates are in the order of the query result, the encoder calls and
\* the converted set in the order of the candidates, each candidate at most
\* once, and nothing beyond the loop's position has been touched
VisitedInOrder ==
    /\ InOrderOnce(files, matched)
    /\ InOrderOnce(obs.encoded, files)
    /\ InOrderOnce([k \in 1..Len(converted) |-> converted[k].content_id], files)
    /\ pc \in {"loop", "stage"} =>
           \A k \in 1..Len(obs.encoded) : Pos(files, obs.encoded[k]) <= idx

\* C37: the loop takes the candidates in the order of the query result, calls
\* the encoder at most once per candidate and in that order, and every
\* invocation eventually terminates.
C37_InOrderAndTerminates == []VisitedInOrder /\ <>Exited

\* a run over two candidates ended after one encoder call for each, in the
\* query's order
C37_Witness ==
    /\ Exited
    /\ Len(matched) = 2
    /\ files = matched
    /\ obs.encoded = files

\* C38: after a commit no two records of the converted set have the same
\* output path, and the committed records of two different candidates do not
\* point to the same file.
C38_DistinctOutputPaths ==
    obs.committed =>
        \A j, k \in 1..Len(converted) :
            j # k => /\ converted[j].output_path # converted[k].output_path
                     /\ durable[converted[j].content_id].path
                            # durable[converted[k].content_id].path

\* C39: a file that rollback cleanup has removed did not exist when the
\* invocation started.
C39_CleanupRemovesOnlyNewFiles ==
    \A p \in obs.cleaned \ obs.unremoved : ~Exists(InitialFs, p)

\* C40: a source file that POSTPROCESS has removed is not the output file of
\* any record of the converted set.
C40_DeletedSourcesAreNotOutputs ==
    \A p \in obs.src_removed :
        (obs.cleaned = {} /\ ~Exists(fs, p)) => p \notin OutputsOf(converted)

====
